---- MODULE Spec2Model ----
(***************************************************************************)
(* Reference-region construction (refregion): the morphological            *)
(* primitives of refregion/morphology.py, the custom builder of            *)
(* refregion/refregion.py and its callers (file wrapper, command line,     *)
(* config-file runner).                                                    *)
(*                                                                         *)
(* A volume is a function from the voxel grid to integers.  numpy booleans *)
(* are the integers 0 and 1.  Probabilities and thresholds are counted in  *)
(* tenths (5 is 0.5), the only operation on them being the comparison >=.  *)
(* An optional argument is a sequence of length at most one: << >> is      *)
(* Python's None, <<x>> is the value x.                                    *)
(***************************************************************************)
EXTENDS Integers, Sequences, FiniteSets, TLC

----------------------------------------------------------------------------
(* Bounds of the model *)

\* extent of the voxel grid along its first axis
NX == 2

\* the voxel grid: NX x 2 x 1
Shape == <<NX, 2, 1>>
\* structuring-element radii tried: up to the extent of the grid, beyond
\* which a ball covers the whole grid from every voxel
MaxRadius == NX
Voxels == (0 .. Shape[1] - 1) \X (0 .. Shape[2] - 1) \X (0 .. Shape[3] - 1)

None == << >>
Some(x) == <<x>>
IsNone(o) == o = << >>

\* the outcome of a call: the exception raised ("none" if none) and the
\* returned value (None if an exception was raised)
Returned(val) == [err |-> "none", val |-> Some(val)]
Raised(err) == [err |-> err, val |-> None]

----------------------------------------------------------------------------
(* numpy / skimage / scipy primitives used by refregion/morphology.py *)

Abs(n) == IF n < 0 THEN -n ELSE n
Min2(a, b) == IF a < b THEN a ELSE b
Max2(a, b) == IF a > b THEN a ELSE b

\* variant: the clipping left out
_clip_Identity(mask) == mask

\* np.clip(mask, 0, 1), element-wise
_clip(mask) == [v \in DOMAIN mask |-> Max2(0, Min2(1, mask[v]))]

\* skimage.morphology.ball(radius): n = 2*radius+1 grid points per axis
\* (np.ogrid[-radius:radius:n*1j] yields |n| points from -radius to radius),
\* element on iff x^2+y^2+z^2 <= radius^2.  The result is the set of index
\* offsets, relative to the centre element, of the elements that are on.
BallPoints(radius) == Abs(2 * radius + 1)

\* coordinate of grid point i, times (BallPoints - 1) when there are several
BallCoord(radius, i) ==
    IF BallPoints(radius) = 1
    THEN -radius
    ELSE (-radius) * (BallPoints(radius) - 1) + i * 2 * radius

BallScale(radius) ==
    IF BallPoints(radius) = 1 THEN 1 ELSE BallPoints(radius) - 1

\* variant: the whole cube of side 2 * radius + 1
BallFootprint_Cube(radius) ==
    LET n == BallPoints(radius)
        c == n \div 2
    IN  { <<i[1] - c, i[2] - c, i[3] - c>> :
            i \in (0 .. n - 1) \X (0 .. n - 1) \X (0 .. n - 1) }

\* variant: the strict comparison x^2+y^2+z^2 < radius^2
BallFootprint_Strict(radius) ==
    LET n == BallPoints(radius)
        c == n \div 2
        k == BallScale(radius)
        sq(i) == BallCoord(radius, i) * BallCoord(radius, i)
    IN  { <<i[1] - c, i[2] - c, i[3] - c>> :
            i \in { j \in (0 .. n - 1) \X (0 .. n - 1) \X (0 .. n - 1) :
                      sq(j[1]) + sq(j[2]) + sq(j[3]) < radius * radius * k * k } }

BallFootprint(radius) ==
    LET n == BallPoints(radius)
        c == n \div 2
        k == BallScale(radius)
        sq(i) == BallCoord(radius, i) * BallCoord(radius, i)
    IN  { <<i[1] - c, i[2] - c, i[3] - c>> :
            i \in { j \in (0 .. n - 1) \X (0 .. n - 1) \X (0 .. n - 1) :
                      sq(j[1]) + sq(j[2]) + sq(j[3]) <= radius * radius * k * k } }

\* the footprints of the radii tried, computed once
BallTable == [radius \in (-2) .. Max2(MaxRadius, 4) |-> BallFootprint(radius)]
ball(radius) == BallTable[radius]

Shift(v, o) == <<v[1] + o[1], v[2] + o[2], v[3] + o[3]>>
Reflect(fp) == { <<-o[1], -o[2], -o[3]>> : o \in fp }

\* scipy.ndimage._binary_erosion: the output is on at v iff every footprint
\* position around v is on in the input (non-zero), positions outside the
\* array counting as border; with invert, input, border and output are
\* negated.
NdiBinaryErosion(image, footprint, border, invert) ==
    [v \in DOMAIN image |->
        LET on(w) == IF w \in DOMAIN image
                     THEN (image[w] # 0) # invert
                     ELSE border # invert
            out == \A o \in footprint : on(Shift(v, o))
        IN  IF out # invert THEN 1 ELSE 0]

\* variant: scipy's default border_value=0 for the erosion
binary_erosion_BorderOff(image, footprint) ==
    NdiBinaryErosion(image, footprint, FALSE, FALSE)

\* skimage.morphology.binary_erosion: ndi.binary_erosion, border_value=True
binary_erosion(image, footprint) ==
    NdiBinaryErosion(image, footprint, TRUE, FALSE)

\* skimage.morphology.binary_dilation: ndi.binary_dilation, border_value=0,
\* which scipy computes as the inverted erosion by the reflected footprint
binary_dilation(image, footprint) ==
    NdiBinaryErosion(image, Reflect(footprint), FALSE, TRUE)

\* variant: erode calling the dilation
erode_Dilates(mask, by_radius) ==
    _clip(binary_dilation(mask, ball(by_radius)))

\* variant: dilate calling the erosion
dilate_Erodes(mask, by_radius) ==
    _clip(binary_erosion(mask, ball(by_radius)))

dilate(mask, by_radius) == _clip(binary_dilation(mask, ball(by_radius)))

erode(mask, by_radius) == _clip(binary_erosion(mask, ball(by_radius)))

\* variant: the strict comparison probability_map > probability_threshold
apply_probability_mask_Strict(mask, probability_map, probability_threshold) ==
    LET probability_map_mask ==
            [v \in DOMAIN probability_map |->
                IF probability_map[v] > probability_threshold THEN 1 ELSE 0]
        masked == [v \in DOMAIN mask |-> mask[v] * probability_map_mask[v]]
    IN  _clip(masked)

\* probability_map >= probability_threshold, then mask * that, then clip
apply_probability_mask(mask, probability_map, probability_threshold) ==
    LET probability_map_mask ==
            [v \in DOMAIN probability_map |->
                IF probability_map[v] >= probability_threshold THEN 1 ELSE 0]
        masked == [v \in DOMAIN mask |-> mask[v] * probability_map_mask[v]]
    IN  _clip(masked)

----------------------------------------------------------------------------
(* refregion/refregion.py *)

\* np.zeros(mask.shape); out[np.isin(mask, indices)] = 1
SelectLabels(mask, indices) ==
    LET zeros == [v \in DOMAIN mask |-> 0]
    IN  [v \in DOMAIN mask |-> IF mask[v] \in indices THEN 1 ELSE zeros[v]]

\* (probability_mask >= probability_threshold).astype(np.uint8)
BinaryProbMask(probability_mask, probability_threshold) ==
    [v \in DOMAIN probability_mask |->
        IF probability_mask[v] >= probability_threshold THEN 1 ELSE 0]

\* variant: a probability mask without threshold is thresholded at 0.5
custom_ref_region_DefaultThreshold(mask, refregion_indices, erode_by_voxels, exclude_indices, dilate_by_voxels, probability_mask, probability_threshold) ==
    LET refregion0 == SelectLabels(mask, refregion_indices)
        threshold ==
            IF IsNone(probability_threshold) THEN 5
            ELSE probability_threshold[1]
        refregion1 ==
            IF ~IsNone(probability_mask)
            THEN LET binary_prob_mask ==
                         BinaryProbMask(probability_mask[1], threshold)
                 IN  [v \in DOMAIN mask |-> refregion0[v] * binary_prob_mask[v]]
            ELSE refregion0
        refregion2 == erode(refregion1, erode_by_voxels)
        exclude_mask0 == SelectLabels(mask, exclude_indices)
        exclude_mask == dilate(exclude_mask0, dilate_by_voxels)
        refregion3 == [v \in DOMAIN mask |-> refregion2[v] - exclude_mask[v]]
    IN  _clip(refregion3)

\* variant: the dilated exclusion is not subtracted
custom_ref_region_NoSubtraction(mask, refregion_indices, erode_by_voxels, exclude_indices, dilate_by_voxels, probability_mask, probability_threshold) ==
    LET refregion0 == SelectLabels(mask, refregion_indices)
        refregion1 ==
            IF ~IsNone(probability_mask) /\ ~IsNone(probability_threshold)
            THEN LET binary_prob_mask ==
                         BinaryProbMask(probability_mask[1],
                                        probability_threshold[1])
                 IN  [v \in DOMAIN mask |-> refregion0[v] * binary_prob_mask[v]]
            ELSE refregion0
        refregion2 == erode(refregion1, erode_by_voxels)
    IN  _clip(refregion2)

\* refregion.custom_ref_region
custom_ref_region(mask, refregion_indices, erode_by_voxels, exclude_indices, dilate_by_voxels, probability_mask, probability_threshold) ==
    LET refregion0 == SelectLabels(mask, refregion_indices)
        refregion1 ==
            IF ~IsNone(probability_mask) /\ ~IsNone(probability_threshold)
            THEN LET binary_prob_mask ==
                         BinaryProbMask(probability_mask[1],
                                        probability_threshold[1])
                 IN  [v \in DOMAIN mask |-> refregion0[v] * binary_prob_mask[v]]
            ELSE refregion0
        refregion2 == erode(refregion1, erode_by_voxels)
        exclude_mask0 == SelectLabels(mask, exclude_indices)
        exclude_mask == dilate(exclude_mask0, dilate_by_voxels)
        refregion3 == [v \in DOMAIN mask |-> refregion2[v] - exclude_mask[v]]
    IN  _clip(refregion3)

----------------------------------------------------------------------------
(* refregion/metrics.py *)

\* int(np.count_nonzero(mask))
voxel_count(mask) == Cardinality({ v \in DOMAIN mask : mask[v] # 0 })

\* float(voxel_count(mask) * np.prod(voxel_dims))
volume_mm3(mask, voxel_dims) ==
    voxel_count(mask) * (voxel_dims[1] * voxel_dims[2] * voxel_dims[3])

\* variant: no policy for an empty original mask
retention_percentage_NoZeroPolicy(original_mask, processed_mask) ==
    <<voxel_count(processed_mask) * 100, voxel_count(original_mask)>>

\* a float is kept as the exact quotient <<numerator, denominator>>
retention_percentage(original_mask, processed_mask) ==
    LET original_count == voxel_count(original_mask)
    IN  IF original_count = 0
        THEN <<0, 1>>
        ELSE <<voxel_count(processed_mask) * 100, original_count>>

----------------------------------------------------------------------------
(* Files.  A path is <<directory, stem, suffix>>; a file system is the      *)
(* function from the existing paths to their contents and the set of        *)
(* existing directories.                                                    *)

Parent(path) == path[1]
Suffix(path) == path[3]
Exists(fs, path) == path \in DOMAIN fs.files

\* a NIfTI image: voxel array, voxel sizes of the header
Image(data, shape) ==
    [kind |-> "image", shape |-> shape, data |-> data, zooms |-> <<2, 1, 1>>]
\* a file nibabel cannot read
Corrupt == [kind |-> "corrupt"]
ConfigDocument(data) == [kind |-> "config", data |-> data]

\* the file system with one more file (and its directory)
WithFile(fs, path, content) ==
    [files |-> [q \in DOMAIN fs.files \cup {path} |->
                   IF q = path THEN content ELSE fs.files[q]],
     dirs |-> fs.dirs \cup {Parent(path)}]

----------------------------------------------------------------------------
(* refregion/wrappers.py *)

\* 1.0 in tenths
ThresholdOne == 10

\* ndarray.astype(np.uint8) of a non-negative whole-valued array
AsUint8(a) == [v \in DOMAIN a |-> a[v] % 256]

Outcome(r, fs, events) == [ret |-> r, fs |-> fs, trace |-> events]

\* the operations refregion.custom_ref_region performs, in order
BuilderEvents(probability_mask, probability_threshold) ==
    <<"select">>
    \o (IF ~IsNone(probability_mask) /\ ~IsNone(probability_threshold)
        THEN <<"threshold">> ELSE << >>)
    \o <<"erode", "select", "dilate", "subtract", "clip">>

\* variant: the probability threshold is not validated
InputValidation_NoThresholdCheck(fs, mask_file, erode_by_voxels, dilate_by_voxels, probability_mask_file, probability_threshold) ==
    IF ~Exists(fs, mask_file) THEN "FileNotFoundError"
    ELSE IF ~IsNone(probability_mask_file)
            /\ ~Exists(fs, probability_mask_file[1])
    THEN "FileNotFoundError"
    ELSE IF erode_by_voxels < 0 THEN "ValueError"
    ELSE IF dilate_by_voxels < 0 THEN "ValueError"
    ELSE "none"

\* variant: the radii are not validated
InputValidation_NoRadiusCheck(fs, mask_file, erode_by_voxels, dilate_by_voxels, probability_mask_file, probability_threshold) ==
    IF ~Exists(fs, mask_file) THEN "FileNotFoundError"
    ELSE IF ~IsNone(probability_mask_file)
            /\ ~Exists(fs, probability_mask_file[1])
    THEN "FileNotFoundError"
    ELSE IF ~IsNone(probability_threshold)
            /\ (probability_threshold[1] < 0
                \/ probability_threshold[1] > ThresholdOne)
    THEN "ValueError"
    ELSE "none"

\* the input validation of wrappers.custom_ref_region: the exception it
\* raises, "none" if the arguments pass
InputValidation(fs, mask_file, erode_by_voxels, dilate_by_voxels, probability_mask_file, probability_threshold) ==
    IF ~Exists(fs, mask_file) THEN "FileNotFoundError"
    ELSE IF ~IsNone(probability_mask_file)
            /\ ~Exists(fs, probability_mask_file[1])
    THEN "FileNotFoundError"
    ELSE IF erode_by_voxels < 0 THEN "ValueError"
    ELSE IF dilate_by_voxels < 0 THEN "ValueError"
    ELSE IF ~IsNone(probability_threshold)
            /\ (probability_threshold[1] < 0
                \/ probability_threshold[1] > ThresholdOne)
    THEN "ValueError"
    ELSE "none"

\* variant: the original selection of the retention metric is taken after
\* probability masking
wrappers_custom_ref_region_FilteredOriginal(fs, mask_file, output_file, refregion_indices, erode_by_voxels, exclude_indices, dilate_by_voxels, probability_mask_file, probability_threshold) ==
    IF InputValidation(fs, mask_file, erode_by_voxels, dilate_by_voxels,
                       probability_mask_file, probability_threshold) # "none"
    THEN Outcome(Raised(InputValidation(
                     fs, mask_file, erode_by_voxels, dilate_by_voxels,
                     probability_mask_file, probability_threshold)),
                 fs, << >>)
    ELSE IF fs.files[mask_file].kind # "image"
    THEN Outcome(Raised("RuntimeError"), fs, <<"load_mask">>)
    ELSE IF ~IsNone(probability_mask_file)
            /\ fs.files[probability_mask_file[1]].kind # "image"
    THEN Outcome(Raised("RuntimeError"), fs, <<"load_mask", "load_prob">>)
    ELSE IF ~IsNone(probability_mask_file)
            /\ fs.files[probability_mask_file[1]].shape
                 # fs.files[mask_file].shape
    THEN \* the ValueError is raised inside the try block and re-raised
         Outcome(Raised("RuntimeError"), fs, <<"load_mask", "load_prob">>)
    ELSE
      LET mask_img == fs.files[mask_file]
          mask == mask_img.data
          probability_mask ==
              IF IsNone(probability_mask_file) THEN None
              ELSE Some(fs.files[probability_mask_file[1]].data)
          original_mask ==
              AsUint8(custom_ref_region(
                  mask, refregion_indices, 0, {}, 0,
                  probability_mask, probability_threshold))
          mask_ref ==
              AsUint8(custom_ref_region(
                  mask, refregion_indices, erode_by_voxels, exclude_indices,
                  dilate_by_voxels, probability_mask, probability_threshold))
          result_metrics ==
              [voxel_count |-> voxel_count(mask_ref),
               volume_mm3 |-> volume_mm3(mask_ref, mask_img.zooms),
               retention_percentage |->
                   retention_percentage(original_mask, mask_ref)]
      IN  Outcome(Returned(result_metrics),
                  WithFile(fs, output_file, Image(mask_ref, mask_img.shape)),
                  <<"load_mask">>
                  \o (IF IsNone(probability_mask_file) THEN << >>
                      ELSE <<"load_prob">>)
                  \o <<"select">>
                  \o BuilderEvents(probability_mask, probability_threshold)
                  \o <<"mkdir", "save">>)

\* wrappers.custom_ref_region: validation, loading, the builder, the
\* morphometrics, the output file
wrappers_custom_ref_region(fs, mask_file, output_file, refregion_indices, erode_by_voxels, exclude_indices, dilate_by_voxels, probability_mask_file, probability_threshold) ==
    IF InputValidation(fs, mask_file, erode_by_voxels, dilate_by_voxels,
                       probability_mask_file, probability_threshold) # "none"
    THEN Outcome(Raised(InputValidation(
                     fs, mask_file, erode_by_voxels, dilate_by_voxels,
                     probability_mask_file, probability_threshold)),
                 fs, << >>)
    ELSE IF fs.files[mask_file].kind # "image"
    THEN Outcome(Raised("RuntimeError"), fs, <<"load_mask">>)
    ELSE IF ~IsNone(probability_mask_file)
            /\ fs.files[probability_mask_file[1]].kind # "image"
    THEN Outcome(Raised("RuntimeError"), fs, <<"load_mask", "load_prob">>)
    ELSE IF ~IsNone(probability_mask_file)
            /\ fs.files[probability_mask_file[1]].shape
                 # fs.files[mask_file].shape
    THEN \* the ValueError is raised inside the try block and re-raised
         Outcome(Raised("RuntimeError"), fs, <<"load_mask", "load_prob">>)
    ELSE
      LET mask_img == fs.files[mask_file]
          mask == mask_img.data
          probability_mask ==
              IF IsNone(probability_mask_file) THEN None
              ELSE Some(fs.files[probability_mask_file[1]].data)
          original_mask == AsUint8(SelectLabels(mask, refregion_indices))
          mask_ref ==
              AsUint8(custom_ref_region(
                  mask, refregion_indices, erode_by_voxels, exclude_indices,
                  dilate_by_voxels, probability_mask, probability_threshold))
          result_metrics ==
              [voxel_count |-> voxel_count(mask_ref),
               volume_mm3 |-> volume_mm3(mask_ref, mask_img.zooms),
               retention_percentage |->
                   retention_percentage(original_mask, mask_ref)]
      IN  Outcome(Returned(result_metrics),
                  WithFile(fs, output_file, Image(mask_ref, mask_img.shape)),
                  <<"load_mask">>
                  \o (IF IsNone(probability_mask_file) THEN << >>
                      ELSE <<"load_prob">>)
                  \o <<"select">>
                  \o BuilderEvents(probability_mask, probability_threshold)
                  \o <<"mkdir", "save">>)

----------------------------------------------------------------------------
(* refregion/config.py *)

SUPPORTED_CONFIG_VERSION == 1

\* ReferenceRegionConfig: the Field constraints and _ref_indices_non_empty
\* variant: probability_threshold without its upper bound
ValidRegion_NoUpperBound(r) ==
    /\ r.erode >= 0
    /\ r.dilate >= 0
    /\ IsNone(r.probability_threshold) \/ r.probability_threshold[1] >= 0
    /\ Cardinality(r.ref_indices) # 0

\* ReferenceRegionConfig: the field constraints, then _ref_indices_non_empty
ValidRegion(r) ==
    /\ r.erode >= 0
    /\ r.dilate >= 0
    /\ IsNone(r.probability_threshold)
       \/ (r.probability_threshold[1] >= 0
           /\ r.probability_threshold[1] <= ThresholdOne)
    /\ Cardinality(r.ref_indices) # 0

\* ConfigFile: every region validates, then ConfigFile._validate
ValidConfig(data) ==
    /\ \A k \in 1 .. Len(data.reference_regions) :
          ValidRegion(data.reference_regions[k])
    /\ data.version = SUPPORTED_CONFIG_VERSION
    /\ Len(data.reference_regions) # 0

\* ReferenceRegionConfig(**fields): [err, cfg]
ReferenceRegionConfig(fields) ==
    IF ~ValidRegion(fields) THEN [err |-> "ValidationError", cfg |-> None]
    ELSE [err |-> "none", cfg |-> Some(fields)]

\* config_from_dict: ConfigFile(**data)
config_from_dict(data) ==
    IF ~ValidConfig(data) THEN [err |-> "ValidationError", cfg |-> None]
    ELSE [err |-> "none", cfg |-> Some(data)]

\* load_config: [err, cfg]
load_config(fs, path) ==
    IF ~Exists(fs, path)
    THEN [err |-> "FileNotFoundError", cfg |-> None]
    ELSE IF Suffix(path) \notin {".yaml", ".yml", ".json"}
    THEN [err |-> "ValueError", cfg |-> None]
    ELSE IF ~ValidConfig(fs.files[path].data)
    THEN [err |-> "ValidationError", cfg |-> None]
    ELSE [err |-> "none", cfg |-> Some(fs.files[path].data)]

----------------------------------------------------------------------------
(* refregion/cli/refregion.py *)

\* parser.error exits with status 2, sys.exit(1) with status 1
ParserError == Raised("SystemExit2")
Exit1 == Raised("SystemExit1")

\* argparse refuses "--ref_indices" without a value (nargs="+")
ArgparseRejects(args) == args.ref_indices = Some({})

\* variant: the probability arguments need not come together
DirectArgumentError_NoPairCheck(args) ==
    \/ ~IsNone(args.region)
    \/ IsNone(args.mask)
    \/ IsNone(args.ref_indices)
    \/ IsNone(args.output)

\* the parser.error checks of main() without --config
DirectArgumentError(args) ==
    \/ ~IsNone(args.region)
    \/ IsNone(args.mask)
    \/ IsNone(args.ref_indices)
    \/ IsNone(args.output)
    \/ (~IsNone(args.probability_mask)) # (~IsNone(args.probability_threshold))

\* main() without --config: the required arguments, the probability pair,
\* then the wrapper and the printed morphometrics
main_direct(fs, args) ==
    IF ArgparseRejects(args) \/ DirectArgumentError(args)
    THEN Outcome(ParserError, fs, << >>)
    ELSE
      LET o == wrappers_custom_ref_region(
                   fs, args.mask[1], args.output[1], args.ref_indices[1],
                   args.erode, args.exclude_indices, args.dilate,
                   args.probability_mask, args.probability_threshold)
      IN  IF o.ret.err # "none" THEN o
          ELSE Outcome(Returned(None), o.fs, o.trace \o <<"print">>)

\* main() with --config up to the loop of _run_from_config: the regions to
\* run, or the failure
SeqNames(regions) == { regions[k].name : k \in 1 .. Len(regions) }
SeqElems(names) == { names[k] : k \in 1 .. Len(names) }

\* what main() hands on in config mode: the status, the regions to run and
\* the lines printed to stderr
ConfigOutcome(r, regions, messages) ==
    [ret |-> r, regions |-> regions, stderr |-> messages]

\* the "region(s) not found" line: the missing names in the order given,
\* the available names in config order
NotFoundMessage(missing, regions) ==
    [error |-> "region(s) not found", missing |-> missing,
     available |-> [k \in 1 .. Len(regions) |-> regions[k].name]]

\* variant: names that are not in the file are ignored
main_config_IgnoresMissing(fs, args) ==
    IF ArgparseRejects(args) THEN ConfigOutcome(ParserError, << >>, << >>)
    ELSE IF ~IsNone(args.mask) \/ ~IsNone(args.ref_indices)
            \/ ~IsNone(args.output)
    THEN ConfigOutcome(ParserError, << >>, << >>)
    ELSE
      LET loaded == load_config(fs, args.config[1])
      IN  IF loaded.err # "none"
          THEN ConfigOutcome(Raised(loaded.err), << >>, << >>)
          ELSE
            LET cfg == loaded.cfg[1]
            IN  IF IsNone(args.region)
                THEN ConfigOutcome(Returned(None), cfg.reference_regions,
                                   << >>)
                ELSE ConfigOutcome(Returned(None),
                         SelectSeq(cfg.reference_regions,
                                   LAMBDA r : r.name \in SeqElems(args.region[1])),
                         << >>)

\* variant: the regions run in the order of the names given to --region
main_config_GivenOrder(fs, args) ==
    IF ArgparseRejects(args) THEN ConfigOutcome(ParserError, << >>, << >>)
    ELSE IF ~IsNone(args.mask) \/ ~IsNone(args.ref_indices)
            \/ ~IsNone(args.output)
    THEN ConfigOutcome(ParserError, << >>, << >>)
    ELSE
      LET loaded == load_config(fs, args.config[1])
      IN  IF loaded.err # "none"
          THEN ConfigOutcome(Raised(loaded.err), << >>, << >>)
          ELSE
            LET cfg == loaded.cfg[1]
                available == SeqNames(cfg.reference_regions)
                missing == SelectSeq(args.region[1],
                                     LAMBDA n : n \notin available)
                named(n) == CHOOSE k \in 1 .. Len(cfg.reference_regions) :
                                cfg.reference_regions[k].name = n
            IN  IF IsNone(args.region)
                THEN ConfigOutcome(Returned(None), cfg.reference_regions,
                                   << >>)
                ELSE IF missing # << >>
                THEN ConfigOutcome(Exit1, << >>,
                         <<NotFoundMessage(missing, cfg.reference_regions)>>)
                ELSE ConfigOutcome(Returned(None),
                         [k \in 1 .. Len(args.region[1]) |->
                             cfg.reference_regions[named(args.region[1][k])]],
                         << >>)

\* main() with --config up to the loop of _run_from_config
main_config(fs, args) ==
    IF ArgparseRejects(args) THEN ConfigOutcome(ParserError, << >>, << >>)
    ELSE IF ~IsNone(args.mask) \/ ~IsNone(args.ref_indices)
            \/ ~IsNone(args.output)
    THEN ConfigOutcome(ParserError, << >>, << >>)
    ELSE
      LET loaded == load_config(fs, args.config[1])
      IN  IF loaded.err # "none"
          THEN ConfigOutcome(Raised(loaded.err), << >>, << >>)
          ELSE
            LET cfg == loaded.cfg[1]
                available == SeqNames(cfg.reference_regions)
                missing == SelectSeq(args.region[1],
                                     LAMBDA n : n \notin available)
            IN  IF IsNone(args.region)
                THEN ConfigOutcome(Returned(None), cfg.reference_regions,
                                   << >>)
                ELSE IF missing # << >>
                THEN ConfigOutcome(Exit1, << >>,
                         <<NotFoundMessage(missing, cfg.reference_regions)>>)
                ELSE ConfigOutcome(Returned(None),
                         SelectSeq(cfg.reference_regions,
                                   LAMBDA r : r.name \in SeqElems(args.region[1])),
                         << >>)

\* the message _run_from_config prints for a region without mask_file or
\* output_file
MissingFieldMessage(region) ==
    IF IsNone(region.mask_file)
    THEN <<[error |-> "missing mask_file", missing |-> <<region.name>>,
            available |-> << >>]>>
    ELSE IF IsNone(region.output_file)
    THEN <<[error |-> "missing output_file", missing |-> <<region.name>>,
            available |-> << >>]>>
    ELSE << >>

\* variant: a region without mask_file is skipped, the loop goes on
run_region_SkipsMissing(fs, region) ==
    IF IsNone(region.mask_file) THEN Outcome(Returned(None), fs, << >>)
    ELSE IF IsNone(region.output_file) THEN Outcome(Exit1, fs, << >>)
    ELSE
      LET o == wrappers_custom_ref_region(
                   fs, region.mask_file[1], region.output_file[1],
                   region.ref_indices, region.erode, region.exclude_indices,
                   region.dilate, region.probability_mask_file,
                   region.probability_threshold)
      IN  IF o.ret.err # "none" THEN o
          ELSE Outcome(Returned(None), o.fs, o.trace \o <<"print">>)

\* one iteration of the loop of _run_from_config
run_region(fs, region) ==
    IF IsNone(region.mask_file) THEN Outcome(Exit1, fs, << >>)
    ELSE IF IsNone(region.output_file) THEN Outcome(Exit1, fs, << >>)
    ELSE
      LET o == wrappers_custom_ref_region(
                   fs, region.mask_file[1], region.output_file[1],
                   region.ref_indices, region.erode, region.exclude_indices,
                   region.dilate, region.probability_mask_file,
                   region.probability_threshold)
      IN  IF o.ret.err # "none" THEN o
          ELSE Outcome(Returned(None), o.fs, o.trace \o <<"print">>)

----------------------------------------------------------------------------
(* refregion/cerebellum.py *)

\* the module-level path the builder loads the whole-brain segmentation from
brain_segmentation ==
    <<"/proc_data1/brainage/ERAP_Project_folder/BIDS/derivatives/fastsurfer/sub-101_ses-Baseline/mri", "aseg.auto", ".mgz">>

cerebral_cortex_ids == {3, 42}
cerebellum_no_vermis_ids ==
    {600, 601, 602, 603, 604, 605, 607, 608, 610, 611, 613, 614, 616, 617,
     619, 620, 622, 623, 625, 626, 628}
vermis_ids == {606, 609, 612, 615, 618, 621, 624, 627}

\* a[cond == value] = to, in place
AssignWhere(a, cond, value, to) ==
    [v \in DOMAIN a |-> IF cond[v] = value THEN to ELSE a[v]]

\* numpy broadcasting of two shapes
Broadcastable(s, t) ==
    \A i \in 1 .. 3 : s[i] = t[i] \/ s[i] = 1 \/ t[i] = 1

\* the local arrays of a builder call, as they are when it returns
NoFrame == [name |-> "none"]

BuilderOutcome(r, fs, events, frame) ==
    [ret |-> r, fs |-> fs, trace |-> events, frame |-> frame]

\* cerebellum.cerebellum_reference_region(cerebellum_segmentation_file,
\* aseg_segmentation_file, output_reference_region): the whole-brain volume
\* is loaded from the module-level path, mask_before and mask_after are the
\* arrays cerebellum_no_vermis_mask and cerebellum_no_vermis_mask_limited
\* themselves, the label values are saved where the limited mask is not 0
cerebellum_reference_region(fs, cerebellum_segmentation_file, aseg_segmentation_file, output_reference_region) ==
    IF ~Exists(fs, cerebellum_segmentation_file)
    THEN BuilderOutcome(Raised("FileNotFoundError"), fs,
                        <<"load_cerebellum">>, NoFrame)
    ELSE IF fs.files[cerebellum_segmentation_file].kind # "image"
    THEN BuilderOutcome(Raised("ImageFileError"), fs,
                        <<"load_cerebellum">>, NoFrame)
    ELSE IF ~Exists(fs, brain_segmentation)
    THEN BuilderOutcome(Raised("FileNotFoundError"), fs,
                        <<"load_cerebellum", "load_brain">>, NoFrame)
    ELSE IF fs.files[brain_segmentation].kind # "image"
    THEN BuilderOutcome(Raised("ImageFileError"), fs,
                        <<"load_cerebellum", "load_brain">>, NoFrame)
    ELSE
      LET cerebellum == fs.files[cerebellum_segmentation_file]
          brain == fs.files[brain_segmentation]
          events == <<"load_cerebellum", "load_brain", "select", "select",
                      "select", "dilate", "dilate", "erode">>
      IN  IF ~Broadcastable(cerebellum.shape, brain.shape)
          THEN \* line 89: the operands of the subtraction do not broadcast
               BuilderOutcome(Raised("ValueError"), fs, events, NoFrame)
          ELSE IF cerebellum.shape # brain.shape
          THEN \* line 94: the boolean index has another shape
               BuilderOutcome(Raised("IndexError"), fs,
                              events \o <<"subtract", "clip">>, NoFrame)
          ELSE
            LET cerebral_cortex ==
                    SelectLabels(brain.data, cerebral_cortex_ids)
                cerebellum_no_vermis_mask0 ==
                    SelectLabels(cerebellum.data, cerebellum_no_vermis_ids)
                vermis_mask == SelectLabels(cerebellum.data, vermis_ids)
                cerebral_cortex_dilated ==
                    _clip(binary_dilation(cerebral_cortex, ball(4)))
                vermis_mask_dilated ==
                    _clip(binary_dilation(vermis_mask, ball(4)))
                cerebellum_no_vermis_mask_eroded ==
                    _clip(binary_erosion(cerebellum_no_vermis_mask0, ball(1)))
                cerebellum_no_vermis_mask_limited0 ==
                    _clip([v \in DOMAIN cerebellum.data |->
                              cerebellum_no_vermis_mask_eroded[v]
                              - cerebral_cortex_dilated[v]
                              - vermis_mask_dilated[v]])
                \* mask_before = cerebellum_no_vermis_mask (the same array)
                cerebellum_no_vermis_mask ==
                    AssignWhere(
                        AssignWhere(cerebellum_no_vermis_mask0,
                                    cerebral_cortex, 1, 2),
                        vermis_mask, 1, 3)
                \* mask_after = cerebellum_no_vermis_mask_limited (the same)
                cerebellum_no_vermis_mask_limited ==
                    AssignWhere(
                        AssignWhere(cerebellum_no_vermis_mask_limited0,
                                    cerebral_cortex, 1, 2),
                        vermis_mask, 1, 3)
                eroded_cerebellum ==
                    AssignWhere(cerebellum.data,
                                cerebellum_no_vermis_mask_limited, 0, 0)
                frame ==
                    [name |-> "cerebellum_reference_region",
                     cerebral_cortex |-> cerebral_cortex,
                     cerebellum_no_vermis_mask |-> cerebellum_no_vermis_mask,
                     vermis_mask |-> vermis_mask,
                     cerebral_cortex_dilated |-> cerebral_cortex_dilated,
                     vermis_mask_dilated |-> vermis_mask_dilated,
                     cerebellum_no_vermis_mask_eroded |->
                         cerebellum_no_vermis_mask_eroded,
                     cerebellum_no_vermis_mask_limited |->
                         cerebellum_no_vermis_mask_limited,
                     eroded_cerebellum |-> eroded_cerebellum]
                done == events \o <<"subtract", "clip", "plot", "plot">>
            IN  IF Parent(output_reference_region) \notin fs.dirs
                THEN BuilderOutcome(Raised("FileNotFoundError"), fs, done,
                                    frame)
                ELSE BuilderOutcome(
                         Returned(None),
                         WithFile(fs, output_reference_region,
                                  Image(eroded_cerebellum, cerebellum.shape)),
                         done \o <<"save">>, frame)

\* a call of the builder with the given positional arguments: it takes three
CallBuilder(fs, args) ==
    IF Len(args) # 3
    THEN BuilderOutcome(Raised("TypeError"), fs, << >>, NoFrame)
    ELSE cerebellum_reference_region(fs, args[1], args[2], args[3])

\* the labels wrappers.cerebellum_reference_region counts as the original
\* selection
all_cerebellar_ids == 601 .. 628

\* wrappers.cerebellum_reference_region: validation, loading, the original
\* selection, then the builder called with the two loaded images
wrappers_cerebellum_reference_region(fs, cerebellum_segmentation_file, brain_segmentation_file, output_reference_region) ==
    IF ~Exists(fs, cerebellum_segmentation_file)
    THEN Outcome(Raised("FileNotFoundError"), fs, << >>)
    ELSE IF ~Exists(fs, brain_segmentation_file)
    THEN Outcome(Raised("FileNotFoundError"), fs, << >>)
    ELSE IF fs.files[cerebellum_segmentation_file].kind # "image"
    THEN Outcome(Raised("RuntimeError"), fs, <<"load_cerebellum">>)
    ELSE IF fs.files[brain_segmentation_file].kind # "image"
    THEN Outcome(Raised("RuntimeError"), fs,
                 <<"load_cerebellum", "load_brain">>)
    ELSE IF fs.files[cerebellum_segmentation_file].shape
              # fs.files[brain_segmentation_file].shape
    THEN \* the ValueError is raised inside the try block and re-raised
         Outcome(Raised("RuntimeError"), fs,
                 <<"load_cerebellum", "load_brain">>)
    ELSE
      LET cerebellum_img == fs.files[cerebellum_segmentation_file]
          brain_img == fs.files[brain_segmentation_file]
          original_mask ==
              AsUint8(SelectLabels(cerebellum_img.data, all_cerebellar_ids))
          o == CallBuilder(fs, <<cerebellum_img, brain_img>>)
          events == <<"load_cerebellum", "load_brain", "select">> \o o.trace
      IN  IF o.ret.err # "none"
          THEN Outcome(o.ret, o.fs, events)
          ELSE \* the builder returns None: None.get_fdata()
               Outcome(Raised("AttributeError"), o.fs, events)

----------------------------------------------------------------------------------
(* webapp/app.py *)

\* the store of a run that serves no page
NoWeb == [page |-> "closed"]

\* a file input without a chosen file
NoFile == [kind |-> "nofile"]

\* DataStore() and the page as initialize() shows it: no mask, the apply,
\* reset and save buttons disabled; "applied" records the mask and the form
\* values the current processed mask was computed from
WebStart ==
    [page |-> "open", mask_img |-> None, mask_data |-> None,
     mask_original |-> None, processed_mask |-> None,
     available_indices |-> {}, apply_disabled |-> TRUE,
     reset_disabled |-> TRUE, save_disabled |-> TRUE,
     load_status |-> "", save_status |-> "", download |-> None,
     applied |-> None]

\* np.unique(store.mask_data)
Unique(data) == { data[v] : v \in DOMAIN data }

\* on_mask_load: without a chosen file load_nifti_file returns (None, None),
\* both are stored and .copy() raises; an unreadable file raises before the
\* assignment; otherwise the mask replaces the old one, the processed mask is
\* dropped and the apply and reset buttons are enabled
on_mask_load(w, file) ==
    IF file.kind = "nofile"
    THEN [w EXCEPT !.mask_img = None, !.mask_data = None,
                   !.load_status = "Error loading mask"]
    ELSE IF file.kind # "image"
    THEN [w EXCEPT !.load_status = "Error loading mask"]
    ELSE [w EXCEPT !.mask_img = Some(file), !.mask_data = Some(file.data),
                   !.mask_original = Some(file.data),
                   !.processed_mask = None, !.applied = None,
                   !.available_indices = Unique(file.data),
                   !.apply_disabled = FALSE, !.reset_disabled = FALSE,
                   !.load_status = "Mask loaded"]

\* the indices of a text input that are labels of the loaded mask
KnownIndices(w, parts) ==
    SelectSeq(parts, LAMBDA idx : idx \in w.available_indices)

\* region_mask of one include index: the label's voxels, eroded when the
\* radius is positive
IncludeRegion(mask_original, idx, erosion_radius) ==
    LET region_mask == [v \in DOMAIN mask_original |->
                            IF mask_original[v] = idx THEN 1 ELSE 0]
    IN  IF erosion_radius > 0 THEN erode(region_mask, erosion_radius)
        ELSE region_mask

\* region_mask of one exclusion index: the label's voxels, dilated when the
\* radius is positive
ExclusionRegion(mask_original, idx, dilation_radius) ==
    LET region_mask == [v \in DOMAIN mask_original |->
                            IF mask_original[v] = idx THEN 1 ELSE 0]
    IN  IF dilation_radius > 0 THEN dilate(region_mask, dilation_radius)
        ELSE region_mask

\* result_mask of apply_operations: every include index writes its own label
\* over its region, one index after the other, then the exclusion regions
\* are set to zero
ProcessedMask(mask_original, mask_indices, exclusion_indices, erosion_radius, dilation_radius) ==
    [v \in DOMAIN mask_original |->
        LET writers == { k \in 1 .. Len(mask_indices) :
                           IncludeRegion(mask_original, mask_indices[k],
                                         erosion_radius)[v] > 0 }
            last == CHOOSE k \in writers : \A j \in writers : j <= k
            excluded == \E k \in 1 .. Len(exclusion_indices) :
                           ExclusionRegion(mask_original, exclusion_indices[k],
                                           dilation_radius)[v] > 0
        IN  IF writers = {} \/ excluded THEN 0 ELSE mask_indices[last]]

\* apply_operations: nothing without a mask, with a text that is no number
\* or with no known index at all; otherwise the processed mask is stored and
\* the save button enabled
apply_operations(w, input) ==
    IF IsNone(w.mask_original)
    THEN [w EXCEPT !.load_status = "Please load a mask first"]
    ELSE IF ~input.numeric
    THEN [w EXCEPT !.load_status = "Invalid index"]
    ELSE
      LET mask_indices == KnownIndices(w, input.mask_indices)
          exclusion_indices == KnownIndices(w, input.exclusion_indices)
      IN  IF mask_indices = << >> /\ exclusion_indices = << >>
          THEN [w EXCEPT !.load_status = "Please select at least one index"]
          ELSE [w EXCEPT
                  !.processed_mask =
                      Some(ProcessedMask(w.mask_original[1], mask_indices,
                                         exclusion_indices,
                                         input.erosion_radius,
                                         input.dilation_radius)),
                  !.applied = Some([mask |-> w.mask_original[1],
                                    input |-> input]),
                  !.save_disabled = FALSE,
                  !.load_status = "Operations applied"]

\* reset_mask
reset_mask(w) ==
    [w EXCEPT !.processed_mask = None, !.applied = None,
              !.save_disabled = TRUE,
              !.load_status = "Mask reset to original"]

\* save_mask: the processed mask is downloaded with the header of the mask
\* image, unless one of the two is missing or the file name is empty
save_mask(w, filename) ==
    IF IsNone(w.processed_mask) \/ IsNone(w.mask_img)
    THEN [w EXCEPT !.save_status = "No processed mask to save"]
    ELSE IF filename = ""
    THEN [w EXCEPT !.save_status = "Please enter a filename"]
    ELSE [w EXCEPT !.save_status = "Mask downloaded",
                   !.download = Some([data |-> w.processed_mask[1],
                                      header |-> w.mask_img[1].shape])]

----------------------------------------------------------------------
(* Inputs *)

\* labels of a label volume: 0 is "no label"
Labels == {0, 1, 2}
LabelVolumes == [Voxels -> Labels]
\* numeric masks handed to erode/dilate: any non-zero value is "on"
NumericMasks == [Voxels -> {0, 1, 2}]
BinaryMasks == [Voxels -> {0, 1}]
NegativeRadii == {-2, -1}
Radii == NegativeRadii \cup (0 .. MaxRadius)

\* probabilities in tenths; a probability volume here varies along the
\* first axis only
ProbLevels == {2, 5, 8}
ProbVolumes ==
    { [v \in Voxels |-> col[v[1]]] : col \in [0 .. NX - 1 -> ProbLevels] }
\* thresholds in tenths
Thresholds == {0, 5, 10}

\* probability volumes of the builder calls: at the threshold everywhere,
\* below it at one voxel, below it everywhere
BuilderProbVolumes ==
    { [v \in Voxels |-> IF v \in low THEN 4 ELSE 5] :
        low \in {{}, Voxels} \cup { {w} : w \in Voxels } }

\* (probability_mask, probability_threshold): neither, both, or only one
ProbabilityArgs ==
    {<<None, None>>, <<None, Some(5)>>}
    \cup { <<Some(p), None>> : p \in {[v \in Voxels |-> 4]} }
    \cup { <<Some(p), Some(5)>> : p \in BuilderProbVolumes }

\* (refregion_indices, exclude_indices)
IndexArgs == { <<{1}, {}>>, <<{1}, {2}>>, <<{1, 2}, {2}>>, <<{}, {2}>> }

\* calls of the core builder without probability arguments, on every label
\* volume
PlainBuilderCalls ==
    { [op |-> "custom_ref_region", mask |-> m,
       refregion_indices |-> ix[1], exclude_indices |-> ix[2],
       erode_by_voxels |-> e, dilate_by_voxels |-> d,
       probability_mask |-> None, probability_threshold |-> None] :
      m \in LabelVolumes, ix \in IndexArgs,
      e \in 0 .. MaxRadius, d \in 0 .. MaxRadius }

\* calls of the core builder with probability arguments, on the label
\* volumes without background
ProbBuilderCalls ==
    { [op |-> "custom_ref_region", mask |-> m,
       refregion_indices |-> ix[1], exclude_indices |-> ix[2],
       erode_by_voxels |-> e, dilate_by_voxels |-> d,
       probability_mask |-> pa[1], probability_threshold |-> pa[2]] :
      m \in [Voxels -> {1, 2}], ix \in IndexArgs,
      e \in 0 .. MaxRadius, d \in 0 .. MaxRadius,
      pa \in ProbabilityArgs \ {<<None, None>>} }

BuilderCalls == PlainBuilderCalls \cup ProbBuilderCalls

\* files of the runs through the wrapper
MaskPath == <<".", "mask", ".nii">>
ProbPath == <<".", "prob", ".nii">>
GonePath == <<".", "gone", ".nii">>
ConfigPath == <<".", "config", ".yaml">>
TextPath == <<".", "config", ".txt">>
OutPath(name) == <<"out", name, ".nii">>

EmptyFs == [files |-> << >>, dirs |-> {"."}]
FsOf(paths, content) ==
    [files |-> [q \in paths |-> content[q]], dirs |-> {"."}]

\* label volumes of the runs through the wrapper: label 1 with at most one
\* voxel of label 2
WrapperVolumes ==
    { [v \in Voxels |-> IF v \in other THEN 2 ELSE 1] :
        other \in {{}} \cup { {w} : w \in Voxels } }
MaskSample == [v \in Voxels |-> IF v = <<0, 0, 0>> THEN 2 ELSE 1]
ProbSample == [v \in Voxels |-> IF v = <<NX - 1, 1, 0>> THEN 4 ELSE 5]

\* a probability image on another grid
OtherShape == <<NX, 1, 1>>
OtherGrid == (0 .. NX - 1) \X {0} \X {0}
MismatchedImage == Image([v \in OtherGrid |-> 5], OtherShape)

MaskFiles ==
    {None, Some(Corrupt)} \cup { Some(Image(m, Shape)) : m \in WrapperVolumes }
ProbFiles ==
    {None, Some(Corrupt), Some(MismatchedImage), Some(Image(ProbSample, Shape)),
     Some(Image([v \in Voxels |-> 4], Shape))}

\* the file system holding the given optional mask and probability files
InputFs(maskfile, probfile) ==
    LET content == [q \in {MaskPath, ProbPath} |->
                       IF q = MaskPath THEN maskfile ELSE probfile]
    IN  FsOf({ q \in {MaskPath, ProbPath} : ~IsNone(content[q]) },
             [q \in {MaskPath, ProbPath} |->
                 IF IsNone(content[q]) THEN Corrupt ELSE content[q][1]])

WrapperThresholds == {None, Some(-1), Some(5), Some(11)}

\* direct calls of wrappers.custom_ref_region: <<call, file system>>
WrapperRuns ==
    { <<[op |-> "wrapper", mask_file |-> MaskPath, output_file |-> OutPath("a"),
         refregion_indices |-> ix[1], exclude_indices |-> ix[2],
         erode_by_voxels |-> e, dilate_by_voxels |-> d,
         probability_mask_file |-> pf[1], probability_threshold |-> t],
        InputFs(mf, pf[2])>> :
      mf \in MaskFiles,
      pf \in {<<None, None>>} \cup { <<Some(ProbPath), f>> : f \in ProbFiles },
      ix \in IndexArgs, e \in {-1, 0, 1}, d \in {-1, 0, 1},
      t \in WrapperThresholds }

\* command lines without --config
DirectRuns ==
    { <<[op |-> "main", config |-> None, mask |-> m, ref_indices |-> r,
         output |-> o, erode |-> e, exclude_indices |-> {2}, dilate |-> 0,
         probability_mask |-> pt[1], probability_threshold |-> pt[2],
         region |-> g],
        InputFs(mf, Some(Image(ProbSample, Shape)))>> :
      m \in {None, Some(MaskPath)}, r \in {None, Some({}), Some({1})},
      o \in {None, Some(OutPath("a"))}, e \in {-1, 1},
      pt \in {<<None, None>>, <<Some(ProbPath), None>>, <<None, Some(5)>>,
              <<Some(ProbPath), Some(5)>>, <<Some(ProbPath), Some(11)>>},
      g \in {None, Some(<<"r1">>)},
      mf \in {None, Some(Image(MaskSample, Shape))} }

\* longest list of regions in a config file
MaxRegions == 2
RegionNames == <<"r1", "r2", "r3">>

\* a valid region definition, and the ways it can differ
BaseRegion(name) ==
    [name |-> name, ref_indices |-> {1}, erode |-> 1, exclude_indices |-> {2},
     dilate |-> 0, probability_mask_file |-> None,
     probability_threshold |-> None, mask_file |-> Some(MaskPath),
     output_file |-> Some(OutPath(name))]

RegionVariants(name) ==
    LET b == BaseRegion(name)
    IN  { b,
          [b EXCEPT !.probability_mask_file = Some(ProbPath),
                    !.probability_threshold = Some(5)],
          [b EXCEPT !.probability_mask_file = Some(ProbPath)],
          [b EXCEPT !.probability_threshold = Some(5)],
          [b EXCEPT !.ref_indices = {}],
          [b EXCEPT !.erode = -1],
          [b EXCEPT !.dilate = -1],
          [b EXCEPT !.probability_threshold = Some(11)],
          [b EXCEPT !.mask_file = None],
          [b EXCEPT !.output_file = None],
          [b EXCEPT !.mask_file = Some(GonePath)] }

RegionLists ==
    UNION { { regions \in [1 .. n -> UNION { RegionVariants(RegionNames[k]) :
                                              k \in 1 .. n }] :
                \A k \in 1 .. n : regions[k].name = RegionNames[k] } :
            n \in 0 .. MaxRegions }

ConfigData ==
    { [version |-> ver, reference_regions |-> regions] :
        ver \in {1, 2}, regions \in RegionLists }

RegionSelections ==
    {None, Some(<<"r1">>), Some(<<"r2">>), Some(<<"r2", "r1">>),
     Some(<<"zz">>), Some(<<"r1", "zz">>)}

ConfigArgs(path, mask, region) ==
    [op |-> "main", config |-> Some(path), mask |-> mask, ref_indices |-> None,
     output |-> None, erode |-> 0, exclude_indices |-> {}, dilate |-> 0,
     probability_mask |-> None, probability_threshold |-> None,
     region |-> region]

ConfigFs(path, data) ==
    WithFile(InputFs(Some(Image(MaskSample, Shape)),
                     Some(Image(ProbSample, Shape))),
             path, ConfigDocument(data))

\* command lines with --config
ConfigRuns ==
    { <<ConfigArgs(ConfigPath, None, g), ConfigFs(ConfigPath, data)>> :
        g \in RegionSelections, data \in ConfigData }
    \cup
    { <<ConfigArgs(x[1], x[2], None), x[3]>> :
        x \in { <<ConfigPath, None,
                  InputFs(Some(Image(MaskSample, Shape)), None)>>,
                <<TextPath, None,
                  ConfigFs(TextPath, [version |-> 1,
                      reference_regions |-> <<BaseRegion("r1")>>])>>,
                <<ConfigPath, Some(MaskPath),
                  ConfigFs(ConfigPath, [version |-> 1,
                      reference_regions |-> <<BaseRegion("r1")>>])>> } }

\* calls of the constructors of config.py and of load_config
ConfigCalls ==
    { [op |-> "config_from_dict", data |-> data] : data \in ConfigData }
    \cup { [op |-> "ReferenceRegionConfig", fields |-> r] :
             r \in RegionVariants("r1") }

LoadConfigRuns ==
    { <<[op |-> "load_config", path |-> ConfigPath],
        ConfigFs(ConfigPath, data)>> : data \in ConfigData }
    \cup
    { <<[op |-> "load_config", path |-> x[1]], x[2]>> :
        x \in { <<ConfigPath, InputFs(Some(Image(MaskSample, Shape)), None)>>,
                <<TextPath,
                  ConfigFs(TextPath, [version |-> 1,
                      reference_regions |-> <<BaseRegion("r1")>>])>> } }

\* files of the cerebellar runs
CerebellumPath == <<".", "cerebellum", ".nii">>
AsegPath == <<".", "aseg", ".mgz">>
RefPath == <<".", "cerebellum_ref", ".nii">>

\* the file system holding the given optional files
FsHolding(content) ==
    LET present == { q \in DOMAIN content : ~IsNone(content[q]) }
    IN  [files |-> [q \in present |-> content[q][1]],
         dirs |-> {"."} \cup { Parent(q) : q \in present }]

OneOrNoVoxel == {{}} \cup { {w} : w \in Voxels }

\* cerebellar label volumes: background, label 600 or label 601, with at
\* most one voxel of another label (606 is a vermis label)
CerebellumVolumes ==
    { [v \in Voxels |-> IF v \in other THEN l ELSE b] :
        b \in {0, 600, 601}, l \in {0, 600, 606}, other \in OneOrNoVoxel }

\* whole-brain label volumes: label 2 with at most one voxel of cerebral
\* cortex (3), and one with a voxel of label 42
BrainVolumes ==
    { [v \in Voxels |-> IF v \in cortex THEN 3 ELSE 2] :
        cortex \in OneOrNoVoxel }
    \cup { [v \in Voxels |-> IF v = <<0, 0, 0>> THEN 42 ELSE 0] }
NoCortex == [v \in Voxels |-> 2]
CortexSample == [v \in Voxels |-> IF v = <<0, 0, 0>> THEN 3 ELSE 2]

\* calls of cerebellum.cerebellum_reference_region with three paths
CerebellumBuilderRuns ==
    { <<[op |-> "cerebellum_reference_region",
         cerebellum_segmentation_file |-> CerebellumPath,
         aseg_segmentation_file |-> AsegPath,
         output_reference_region |-> out],
        FsHolding((CerebellumPath :> cf) @@ (AsegPath :> af)
                  @@ (brain_segmentation :> gf))>> :
      out \in {RefPath, OutPath("c")},
      cf \in {None, Some(Corrupt)}
             \cup { Some(Image(m, Shape)) : m \in CerebellumVolumes },
      af \in {Some(Image(NoCortex, Shape)), Some(Image(CortexSample, Shape))},
      gf \in {None, Some(Corrupt), Some(MismatchedImage)}
             \cup { Some(Image(m, Shape)) : m \in BrainVolumes } }

\* calls of wrappers.cerebellum_reference_region
CerebellumWrapperRuns ==
    { <<[op |-> "cerebellum_wrapper",
         cerebellum_segmentation_file |-> CerebellumPath,
         brain_segmentation |-> AsegPath,
         output_reference_region |-> OutPath("c")],
        FsHolding((CerebellumPath :> cf) @@ (AsegPath :> af)
                  @@ (brain_segmentation :> gf))>> :
      cf \in {None, Some(Corrupt), Some(Image([v \in Voxels |-> 601], Shape)),
              Some(Image([v \in Voxels |-> 600], Shape)),
              Some(Image([v \in Voxels |-> IF v = <<0, 0, 0>> THEN 606 ELSE 601],
                         Shape))},
      af \in {None, Some(Corrupt), Some(MismatchedImage),
              Some(Image(NoCortex, Shape)), Some(Image(CortexSample, Shape))},
      gf \in {None, Some(Image(NoCortex, Shape))} }

\* the files chosen in the front end: none, an unreadable one, label
\* volumes with one or two labels next to each other or next to background
WebVolumes ==
    { MaskSample,
      [v \in Voxels |-> 1],
      [v \in Voxels |-> IF v[1] = 0 THEN 1 ELSE 0],
      [v \in Voxels |-> IF v[1] = 0 THEN 1 ELSE 2] }
WebFiles == {NoFile, Corrupt} \cup { Image(m, Shape) : m \in WebVolumes }

\* the form of the front end when "apply" is clicked: whether the two index
\* texts are numbers, the indices typed, the two sliders
WebForm(numeric, mask_indices, exclusion_indices, erosion_radius, dilation_radius) ==
    [numeric |-> numeric, mask_indices |-> mask_indices,
     exclusion_indices |-> exclusion_indices,
     erosion_radius |-> erosion_radius, dilation_radius |-> dilation_radius]
WebForms ==
    { WebForm(TRUE, <<1>>, << >>, 0, 0),
      WebForm(TRUE, <<1>>, <<2>>, 1, 1),
      WebForm(TRUE, <<1, 2>>, << >>, 1, 0),
      WebForm(TRUE, <<2, 1>>, <<2>>, 0, 1),
      WebForm(TRUE, << >>, <<2>>, 0, 1),
      WebForm(TRUE, <<7>>, << >>, 1, 0),
      WebForm(TRUE, << >>, << >>, 0, 0),
      WebForm(FALSE, <<1>>, << >>, 0, 0) }
WebFilenames == {"", "processed_mask.nii.gz"}

FileRuns ==
    WrapperRuns \cup DirectRuns \cup ConfigRuns
    \cup CerebellumBuilderRuns \cup CerebellumWrapperRuns

RetentionCalls ==
    [op : {"retention_percentage"}, original_mask : BinaryMasks,
     processed_mask : BinaryMasks]

MorphologyCalls ==
    [op : {"erode", "dilate"}, mask : NumericMasks, by_radius : Radii]

ProbabilityCalls ==
    [op : {"apply_probability_mask"}, mask : BinaryMasks,
     probability_map : ProbVolumes, probability_threshold : Thresholds]

----------------------------------------------------------------------------
(* State *)

VARIABLES
    call,   \* the invocation: operation and arguments
    pc,     \* "called" before the operation has run, "loop" inside the loop
            \* of _run_from_config, "returned" after
    ret,    \* [err, val]: the exception raised ("none" if none) and the
            \* returned value (None if an exception was raised)
    fs,     \* the file system
    trace,  \* the operations performed so far, in order
    loop,   \* _run_from_config: the regions to run and the current index
    frame,  \* cerebellum.cerebellum_reference_region: its local arrays
    stderr, \* the error messages printed by _run_from_config
    web     \* webapp/app.py: the store and the buttons of the front end

vars == <<call, pc, ret, fs, trace, loop, frame, stderr, web>>

NoLoop == [regions |-> << >>, i |-> 0]

Init ==
    /\ \/ /\ call \in MorphologyCalls \cup ProbabilityCalls \cup BuilderCalls
                      \cup RetentionCalls \cup ConfigCalls
          /\ fs = EmptyFs
       \/ \E run \in FileRuns : call = run[1] /\ fs = run[2]
       \/ \E run \in LoadConfigRuns : call = run[1] /\ fs = run[2]
    /\ pc = "called"
    /\ ret = Raised("pending")
    /\ trace = << >>
    /\ loop = NoLoop
    /\ frame = NoFrame
    /\ stderr = << >>
    /\ web = NoWeb

Erode ==
    /\ pc = "called"
    /\ call.op = "erode"
    /\ ret' = Returned(erode(call.mask, call.by_radius))
    /\ trace' = <<"erode">>
    /\ pc' = "returned"
    /\ UNCHANGED <<call, fs, loop, frame, stderr, web>>

Dilate ==
    /\ pc = "called"
    /\ call.op = "dilate"
    /\ ret' = Returned(dilate(call.mask, call.by_radius))
    /\ trace' = <<"dilate">>
    /\ pc' = "returned"
    /\ UNCHANGED <<call, fs, loop, frame, stderr, web>>

ApplyProbabilityMask ==
    /\ pc = "called"
    /\ call.op = "apply_probability_mask"
    /\ ret' = Returned(apply_probability_mask(
                 call.mask, call.probability_map, call.probability_threshold))
    /\ trace' = <<"threshold">>
    /\ pc' = "returned"
    /\ UNCHANGED <<call, fs, loop, frame, stderr, web>>

CustomRefRegion ==
    /\ pc = "called"
    /\ call.op = "custom_ref_region"
    /\ ret' = Returned(custom_ref_region(
                 call.mask, call.refregion_indices, call.erode_by_voxels,
                 call.exclude_indices, call.dilate_by_voxels,
                 call.probability_mask, call.probability_threshold))
    /\ trace' = BuilderEvents(call.probability_mask,
                              call.probability_threshold)
    /\ pc' = "returned"
    /\ UNCHANGED <<call, fs, loop, frame, stderr, web>>

\* a direct call of wrappers.custom_ref_region
Wrapper ==
    /\ pc = "called"
    /\ call.op = "wrapper"
    /\ LET o == wrappers_custom_ref_region(
                    fs, call.mask_file, call.output_file,
                    call.refregion_indices, call.erode_by_voxels,
                    call.exclude_indices, call.dilate_by_voxels,
                    call.probability_mask_file, call.probability_threshold)
       IN  ret' = o.ret /\ fs' = o.fs /\ trace' = o.trace
    /\ pc' = "returned"
    /\ UNCHANGED <<call, loop, frame, stderr, web>>

\* the command line without --config
MainDirect ==
    /\ pc = "called"
    /\ call.op = "main"
    /\ IsNone(call.config)
    /\ LET o == main_direct(fs, call)
       IN  ret' = o.ret /\ fs' = o.fs /\ trace' = o.trace
    /\ pc' = "returned"
    /\ UNCHANGED <<call, loop, frame, stderr, web>>

\* the command line with --config, up to the loop over the regions
MainConfig ==
    /\ pc = "called"
    /\ call.op = "main"
    /\ ~IsNone(call.config)
    /\ LET o == main_config(fs, call)
       IN  /\ stderr' = stderr \o o.stderr
           /\ IF o.ret.err # "none"
              THEN ret' = o.ret /\ pc' = "returned" /\ loop' = loop
              ELSE /\ ret' = ret
                   /\ pc' = "loop"
                   /\ loop' = [regions |-> o.regions, i |-> 1]
    /\ UNCHANGED <<call, fs, trace, frame, web>>

\* one iteration of the loop of _run_from_config; the run returns after
\* the last region or at the first failure
RunRegion ==
    /\ pc = "loop"
    /\ loop.i <= Len(loop.regions)
    /\ LET o == run_region(fs, loop.regions[loop.i])
       IN  /\ fs' = o.fs
           /\ trace' = trace \o o.trace
           /\ stderr' = stderr \o MissingFieldMessage(loop.regions[loop.i])
           /\ IF o.ret.err # "none"
              THEN ret' = o.ret /\ pc' = "returned" /\ loop' = loop
              ELSE IF loop.i = Len(loop.regions)
              THEN ret' = Returned(None) /\ pc' = "returned" /\ loop' = loop
              ELSE /\ ret' = ret
                   /\ pc' = "loop"
                   /\ loop' = [loop EXCEPT !.i = loop.i + 1]
    /\ UNCHANGED <<call, frame, web>>

\* a call of metrics.retention_percentage
RetentionPercentage ==
    /\ pc = "called"
    /\ call.op = "retention_percentage"
    /\ ret' = Returned(retention_percentage(call.original_mask,
                                            call.processed_mask))
    /\ trace' = << >>
    /\ pc' = "returned"
    /\ UNCHANGED <<call, fs, loop, frame, stderr, web>>

\* a call of cerebellum.cerebellum_reference_region with three paths
CerebellumReferenceRegion ==
    /\ pc = "called"
    /\ call.op = "cerebellum_reference_region"
    /\ LET o == CallBuilder(fs, <<call.cerebellum_segmentation_file,
                                  call.aseg_segmentation_file,
                                  call.output_reference_region>>)
       IN  ret' = o.ret /\ fs' = o.fs /\ trace' = o.trace /\ frame' = o.frame
    /\ pc' = "returned"
    /\ UNCHANGED <<call, loop, stderr, web>>

\* a call of wrappers.cerebellum_reference_region
CerebellumWrapper ==
    /\ pc = "called"
    /\ call.op = "cerebellum_wrapper"
    /\ LET o == wrappers_cerebellum_reference_region(
                    fs, call.cerebellum_segmentation_file,
                    call.brain_segmentation, call.output_reference_region)
       IN  ret' = o.ret /\ fs' = o.fs /\ trace' = o.trace
    /\ pc' = "returned"
    /\ UNCHANGED <<call, loop, frame, stderr, web>>

\* the result of a constructor of config.py as a return value
ConfigResult(o) == IF o.err = "none" THEN Returned(o.cfg[1]) ELSE Raised(o.err)

\* a call of config.load_config
LoadConfig ==
    /\ pc = "called"
    /\ call.op = "load_config"
    /\ ret' = ConfigResult(load_config(fs, call.path))
    /\ pc' = "returned"
    /\ UNCHANGED <<call, fs, trace, loop, frame, stderr, web>>

\* a call of config.config_from_dict
ConfigFromDict ==
    /\ pc = "called"
    /\ call.op = "config_from_dict"
    /\ ret' = ConfigResult(config_from_dict(call.data))
    /\ pc' = "returned"
    /\ UNCHANGED <<call, fs, trace, loop, frame, stderr, web>>

\* a call of the constructor ReferenceRegionConfig
ConstructRegion ==
    /\ pc = "called"
    /\ call.op = "ReferenceRegionConfig"
    /\ ret' = ConfigResult(ReferenceRegionConfig(call.fields))
    /\ pc' = "returned"
    /\ UNCHANGED <<call, fs, trace, loop, frame, stderr, web>>

Next ==
    \/ Erode
    \/ Dilate
    \/ ApplyProbabilityMask
    \/ CustomRefRegion
    \/ Wrapper
    \/ MainDirect
    \/ MainConfig
    \/ RunRegion
    \/ RetentionPercentage
    \/ CerebellumReferenceRegion
    \/ CerebellumWrapper
    \/ LoadConfig
    \/ ConfigFromDict
    \/ ConstructRegion

Spec == Init /\ [][Next]_vars

----------------------------------------------------------------------------
(* the front end: webapp/app.py *)

WebInit ==
    /\ call = [op |-> "webapp"]
    /\ pc = "idle"
    /\ ret = Raised("pending")
    /\ fs = EmptyFs
    /\ trace = << >>
    /\ loop = NoLoop
    /\ frame = NoFrame
    /\ stderr = << >>
    /\ web = WebStart

\* a "change" event of the mask file input
OnMaskLoad ==
    /\ web.page = "open"
    /\ \E file \in WebFiles : web' = on_mask_load(web, file)
    /\ UNCHANGED <<call, pc, ret, fs, trace, loop, frame, stderr>>

\* a click on the apply button; a disabled button sends no click
ApplyOperations ==
    /\ web.page = "open"
    /\ ~web.apply_disabled
    /\ \E input \in WebForms : web' = apply_operations(web, input)
    /\ UNCHANGED <<call, pc, ret, fs, trace, loop, frame, stderr>>

\* a click on the reset button
ResetMask ==
    /\ web.page = "open"
    /\ ~web.reset_disabled
    /\ web' = reset_mask(web)
    /\ UNCHANGED <<call, pc, ret, fs, trace, loop, frame, stderr>>

\* a click on the save button
SaveMask ==
    /\ web.page = "open"
    /\ ~web.save_disabled
    /\ \E filename \in WebFilenames : web' = save_mask(web, filename)
    /\ UNCHANGED <<call, pc, ret, fs, trace, loop, frame, stderr>>

WebNext ==
    \/ OnMaskLoad
    \/ ApplyOperations
    \/ ResetMask
    \/ SaveMask

WebSpec == WebInit /\ [][WebNext]_vars

----------------------------------------------------------------------------
(* Properties *)

Done(op) == pc = "returned" /\ call.op = op
Value == ret.val[1]
IsMask(a) == \A v \in DOMAIN a : a[v] \in {0, 1}
On(a) == { v \in DOMAIN a : a[v] # 0 }

\* squared Euclidean distance between two voxels
Dist2(v, w) ==
    (v[1] - w[1]) * (v[1] - w[1]) + (v[2] - w[2]) * (v[2] - w[2])
    + (v[3] - w[3]) * (v[3] - w[3])

\* the voxels within distance r of v
Near(v, r) == { w \in Voxels : Dist2(v, w) <= r * r }

\* the include selection of a builder call: label in the include set and,
\* when both probability arguments are given, probability >= threshold
BothProbabilityArgs(c) ==
    ~IsNone(c.probability_mask) /\ ~IsNone(c.probability_threshold)
OneProbabilityArg(c) ==
    IsNone(c.probability_mask) # IsNone(c.probability_threshold)
InSelection(c, v) ==
    /\ c.mask[v] \in c.refregion_indices
    /\ BothProbabilityArgs(c) =>
           ~(c.probability_mask[1][v] < c.probability_threshold[1])
InExclusion(c, v) == c.mask[v] \in c.exclude_indices

\* C1: custom_ref_region returns clip(erode(S, e) - dilate(X, d), 0, 1): a
\* voxel is 1 iff every voxel of the volume within distance e of it is in
\* the include selection S (probability applied before erosion) and no voxel
\* within distance d of it carries an excluded label; every other voxel is 0.
C1_BuilderResult ==
    Done("custom_ref_region") =>
        /\ ret.err = "none"
        /\ \A v \in Voxels :
              Value[v] =
                  IF /\ \A w \in Near(v, call.erode_by_voxels) :
                            InSelection(call, w)
                     /\ ~\E w \in Near(v, call.dilate_by_voxels) :
                            InExclusion(call, w)
                  THEN 1 ELSE 0

\* a call with both probability arguments and both radii positive whose
\* result keeps some voxel of the selection and drops another
C1_Witness ==
    /\ Done("custom_ref_region")
    /\ BothProbabilityArgs(call)
    /\ call.erode_by_voxels >= 1
    /\ call.dilate_by_voxels >= 1
    /\ call.exclude_indices # {}
    /\ On(Value) # {}
    /\ \E v \in Voxels : InSelection(call, v) /\ Value[v] = 0
    /\ \E v \in Voxels :
          call.mask[v] \in call.refregion_indices /\ ~InSelection(call, v)

\* C2: every voxel of the output of erode, dilate, apply_probability_mask
\* and custom_ref_region is 0 or 1.
C2_BinaryOutput ==
    (pc = "returned" /\ ret.err = "none"
       /\ call.op \in {"erode", "dilate", "apply_probability_mask",
                       "custom_ref_region"})
        => IsMask(Value)

\* a builder result where the exclusion covers a voxel outside the eroded
\* selection (the subtraction yields -1 there before clipping), and a
\* non-binary input to erode
C2_Witness ==
    \/ /\ Done("custom_ref_region")
       /\ \E v \in Voxels : InExclusion(call, v) /\ ~InSelection(call, v)
       /\ On(Value) # {}
    \/ /\ Done("erode")
       /\ \E v \in Voxels : call.mask[v] = 2

\* C3: for every radius r >= 0, every voxel on in erode(M, r) is on in M and
\* every voxel on in M is on in dilate(M, r).
C3_Monotone ==
    /\ (Done("erode") /\ call.by_radius >= 0) => On(Value) \subseteq On(call.mask)
    /\ (Done("dilate") /\ call.by_radius >= 0) => On(call.mask) \subseteq On(Value)

\* an erosion that removes a voxel or a dilation that adds one
C3_Witness ==
    /\ pc = "returned"
    /\ call.op \in {"erode", "dilate"}
    /\ call.by_radius >= 1
    /\ On(Value) # On(call.mask)
    /\ On(Value) # {}
    /\ On(Value) # Voxels

\* C4: erode(M, 0) and dilate(M, 0) both equal clip(M, 0, 1) voxel-wise.
C4_RadiusZero ==
    (pc = "returned" /\ call.op \in {"erode", "dilate"} /\ call.by_radius = 0)
        => /\ ret.err = "none"
           /\ \A v \in Voxels :
                 Value[v] = IF call.mask[v] >= 1 THEN 1 ELSE call.mask[v]

\* radius 0 applied to a mask with a value above 1
C4_Witness ==
    /\ pc = "returned"
    /\ call.op \in {"erode", "dilate"}
    /\ call.by_radius = 0
    /\ \E v \in Voxels : call.mask[v] = 2
    /\ \E v \in Voxels : call.mask[v] = 0

\* C5: erode and dilate with a negative radius fail with an
\* invalid-parameter error and return no mask.
C5_NegativeRadiusRejected ==
    (pc = "returned" /\ call.op \in {"erode", "dilate"} /\ call.by_radius < 0)
        => ret.err = "ValueError" /\ IsNone(ret.val)

\* C6: apply_probability_mask is on at a voxel iff the input mask is on
\* there and the probability there is not below the threshold; a voxel whose
\* probability equals the threshold is kept.
C6_ProbabilityMask ==
    Done("apply_probability_mask") =>
        /\ ret.err = "none"
        /\ \A v \in Voxels :
              /\ Value[v] \in {0, 1}
              /\ Value[v] = 1 <=>
                     /\ call.mask[v] = 1
                     /\ ~(call.probability_map[v] < call.probability_threshold)

\* a kept voxel whose probability equals the threshold, next to dropped ones
C6_Witness ==
    /\ Done("apply_probability_mask")
    /\ \E v \in Voxels :
          /\ call.mask[v] = 1
          /\ call.probability_map[v] = call.probability_threshold
          /\ Value[v] = 1
    /\ \E v \in Voxels :
          /\ call.mask[v] = 1
          /\ call.probability_map[v] < call.probability_threshold
          /\ Value[v] = 0

\* exactly one of an optional pair is given
Lone(a, b) == IsNone(a) # IsNone(b)
OutOfRange(t) == ~IsNone(t) /\ (t[1] < 0 \/ t[1] > ThresholdOne)
IsDirectMain == call.op = "main" /\ IsNone(call.config)
IsConfigMain == call.op = "main" /\ ~IsNone(call.config)
\* no output file or directory was created
NothingWritten ==
    /\ fs.dirs = {"."}
    /\ \A q \in DOMAIN fs.files : Parent(q) = "."
IsImageAt(path) == Exists(fs, path) /\ fs.files[path].kind = "image"
\* the region definitions of the regions the config run has selected
Selected == { loop.regions[k] : k \in 1 .. Len(loop.regions) }
\* a region whose files the wrapper can read
Runnable(r) ==
    /\ ~IsNone(r.mask_file)
    /\ ~IsNone(r.output_file)
    /\ IsImageAt(r.mask_file[1])
    /\ ~IsNone(r.probability_mask_file) =>
           /\ IsImageAt(r.probability_mask_file[1])
           /\ fs.files[r.probability_mask_file[1]].shape
                = fs.files[r.mask_file[1]].shape

WithoutProbability(c) ==
    custom_ref_region(c.mask, c.refregion_indices, c.erode_by_voxels,
                      c.exclude_indices, c.dilate_by_voxels, None, None)

C9_EmptyIncludeRejected ==
    /\ (Done("custom_ref_region") /\ call.refregion_indices = {})
        => ret.err # "none"
    /\ (Done("wrapper") /\ call.refregion_indices = {})
        => ret.err # "none" /\ ~Exists(fs, call.output_file)
    /\ (pc = "returned" /\ IsDirectMain /\ call.ref_indices = Some({}))
        => ret.err # "none"
    /\ (pc = "returned" /\ IsConfigMain
          /\ Exists(fs, call.config[1])
          /\ \E k \in 1 .. Len(fs.files[call.config[1]].data.reference_regions) :
                fs.files[call.config[1]].data.reference_regions[k].ref_indices
                  = {})
        => ret.err # "none"

\* the regions written in the config file of a config run
Configured ==
    IF IsConfigMain /\ Exists(fs, call.config[1])
    THEN { fs.files[call.config[1]].data.reference_regions[k] :
             k \in 1 .. Len(fs.files[call.config[1]].data.reference_regions) }
    ELSE {}

\* C10: an invocation through the precondition layer (wrapper, command
\* line, config file) whose probability threshold is present and outside
\* [0,1] is rejected before any volume is loaded and before any
\* morphological operation runs, and writes nothing; the wrapper rejects it
\* with a ValueError when its files exist and its radii are valid.
C10_ThresholdRejected ==
    /\ (Done("wrapper") /\ OutOfRange(call.probability_threshold))
        => /\ ret.err \in {"ValueError", "FileNotFoundError"}
           /\ IsNone(ret.val)
           /\ trace = << >>
           /\ NothingWritten
           /\ (/\ Exists(fs, call.mask_file)
               /\ ~IsNone(call.probability_mask_file) =>
                      Exists(fs, call.probability_mask_file[1])
               /\ call.erode_by_voxels >= 0
               /\ call.dilate_by_voxels >= 0) => ret.err = "ValueError"
    /\ (pc = "returned" /\ IsDirectMain
          /\ OutOfRange(call.probability_threshold))
        => ret.err # "none" /\ trace = << >> /\ NothingWritten
    /\ (pc # "called" /\ IsConfigMain
          /\ \E r \in Configured : OutOfRange(r.probability_threshold))
        => /\ pc = "returned"
           /\ ret.err # "none"
           /\ trace = << >>
           /\ NothingWritten

\* a wrapper call with readable files and valid radii, and a command line
\* passing every parser check, each rejected for the threshold alone
C10_Witness ==
    \/ /\ Done("wrapper")
       /\ OutOfRange(call.probability_threshold)
       /\ IsImageAt(call.mask_file)
       /\ ~IsNone(call.probability_mask_file)
       /\ IsImageAt(call.probability_mask_file[1])
       /\ call.erode_by_voxels >= 0 /\ call.dilate_by_voxels >= 0
       /\ call.refregion_indices # {}
       /\ ret.err = "ValueError"
    \/ /\ pc = "returned" /\ IsDirectMain
       /\ OutOfRange(call.probability_threshold)
       /\ IsImageAt(MaskPath)
       /\ call.erode >= 0
       /\ ret.err = "ValueError"

\* the operation was performed in the run so far
Performed(ev) == \E k \in 1 .. Len(trace) : trace[k] = ev
Processing == {"select", "threshold", "erode", "dilate", "subtract", "clip"}
\* two readable images of different voxel-grid shape
Mismatch(a, b) ==
    /\ IsImageAt(a)
    /\ IsImageAt(b)
    /\ fs.files[a].shape # fs.files[b].shape

\* C11: a wrapper call whose label volume and companion volume (probability
\* volume, whole-brain volume) are readable and differ in shape fails before
\* any selection, thresholding, erosion or dilation, with an error other
\* than the one the same call raises when the companion file is unreadable.
C11_ShapeMismatchError ==
    /\ (/\ Done("wrapper")
        /\ ~IsNone(call.probability_mask_file)
        /\ Mismatch(call.mask_file, call.probability_mask_file[1])
        /\ call.erode_by_voxels >= 0
        /\ call.dilate_by_voxels >= 0
        /\ ~OutOfRange(call.probability_threshold))
        => /\ ret.err # "none"
           /\ \A ev \in Processing : ~Performed(ev)
           /\ ret.err #
                wrappers_custom_ref_region(
                    WithFile(fs, call.probability_mask_file[1], Corrupt),
                    call.mask_file, call.output_file, call.refregion_indices,
                    call.erode_by_voxels, call.exclude_indices,
                    call.dilate_by_voxels, call.probability_mask_file,
                    call.probability_threshold).ret.err
    /\ (/\ Done("cerebellum_wrapper")
        /\ Mismatch(call.cerebellum_segmentation_file, call.brain_segmentation))
        => /\ ret.err # "none"
           /\ \A ev \in Processing : ~Performed(ev)
           /\ ret.err #
                wrappers_cerebellum_reference_region(
                    WithFile(fs, call.brain_segmentation, Corrupt),
                    call.cerebellum_segmentation_file, call.brain_segmentation,
                    call.output_reference_region).ret.err

\* the volumes of a finished call of the cerebellar builder
BuilderSucceeded ==
    Done("cerebellum_reference_region") /\ ret.err = "none"
CerebellumData == fs.files[call.cerebellum_segmentation_file].data
AsegData == fs.files[call.aseg_segmentation_file].data
BuilderOutput == fs.files[call.output_reference_region].data
SameShapeInputs ==
    /\ IsImageAt(call.cerebellum_segmentation_file)
    /\ IsImageAt(call.aseg_segmentation_file)
    /\ fs.files[call.cerebellum_segmentation_file].shape
         = fs.files[call.aseg_segmentation_file].shape

\* C12: a voxel of the cerebellar builder's output is on iff every voxel
\* within distance 1 of it carries a cerebellum-without-vermis label, no
\* voxel within distance 4 carries a vermis label and no voxel within
\* distance 4 carries a cerebral-cortex label (3, 42) in the whole-brain
\* volume passed to the call; no vermis voxel and no cortex voxel is on.
C12_CerebellumResult ==
    (BuilderSucceeded /\ SameShapeInputs) =>
        /\ \A v \in Voxels :
              (BuilderOutput[v] # 0) <=>
                  /\ \A w \in Near(v, 1) :
                        CerebellumData[w] \in cerebellum_no_vermis_ids
                  /\ ~\E w \in Near(v, 4) : CerebellumData[w] \in vermis_ids
                  /\ ~\E w \in Near(v, 4) : AsegData[w] \in cerebral_cortex_ids
        /\ \A v \in Voxels :
              (CerebellumData[v] \in vermis_ids
                 \/ AsegData[v] \in cerebral_cortex_ids)
                  => BuilderOutput[v] = 0

\* C13: every voxel of the volume the cerebellar builder produces is 0 or 1.
C13_CerebellumBinary ==
    BuilderSucceeded => IsMask(BuilderOutput)

\* C14: retention_percentage(original, processed) is the quotient
\* count(processed) / count(original) * 100 when the original mask has a
\* non-zero voxel and exactly 0 when it has none, whatever the processed
\* mask; retention_percentage(M, M) is 100 for every non-empty M.
C14_RetentionPercentage ==
    Done("retention_percentage") =>
        LET original == Cardinality(On(call.original_mask))
            processed == Cardinality(On(call.processed_mask))
        IN  /\ ret.err = "none"
            /\ original = 0 => Value = <<0, 1>>
            /\ original > 0 =>
                   /\ Value[2] > 0
                   /\ Value[1] * original = processed * 100 * Value[2]
            /\ (original > 0 /\ call.processed_mask = call.original_mask)
                   => Value[1] = 100 * Value[2]

\* an empty original mask with a non-empty processed mask
C14_Witness ==
    /\ Done("retention_percentage")
    /\ On(call.original_mask) = {}
    /\ On(call.processed_mask) # {}
    /\ Value = <<0, 1>>

\* the voxels of the wrapper's label volume whose label is in the include set
RawSelection ==
    { v \in Voxels :
        fs.files[call.mask_file].data[v] \in call.refregion_indices }
WrapperOutput == fs.files[call.output_file].data
WrapperSucceeded == Done("wrapper") /\ ret.err = "none"

\* C15: the retention percentage a custom wrapper call returns is
\* count(result) / count(raw include-label selection of the label volume)
\* * 100 (0 when that selection is empty), whatever the probability
\* arguments and radii.
C15_RetentionAgainstSelection ==
    WrapperSucceeded =>
        /\ Value.voxel_count = Cardinality(On(WrapperOutput))
        /\ Value.retention_percentage =
              IF RawSelection = {} THEN <<0, 1>>
              ELSE <<Cardinality(On(WrapperOutput)) * 100,
                     Cardinality(RawSelection)>>

\* a call whose probability threshold removed a selected voxel and whose
\* result is not empty
C15_Witness ==
    /\ WrapperSucceeded
    /\ ~IsNone(call.probability_mask_file)
    /\ ~IsNone(call.probability_threshold)
    /\ call.erode_by_voxels = 0
    /\ \E v \in RawSelection :
          fs.files[call.probability_mask_file[1]].data[v]
            < call.probability_threshold[1]
    /\ On(WrapperOutput) # {}
    /\ Cardinality(On(WrapperOutput)) < Cardinality(RawSelection)

C17_NoInPlaceMutation ==
    (Done("cerebellum_reference_region") /\ frame # NoFrame) =>
        /\ frame.cerebellum_no_vermis_mask =
              [v \in Voxels |->
                  IF CerebellumData[v] \in cerebellum_no_vermis_ids
                  THEN 1 ELSE 0]
        /\ frame.cerebellum_no_vermis_mask_limited =
              [v \in Voxels |->
                  IF /\ frame.cerebellum_no_vermis_mask_eroded[v] = 1
                     /\ frame.cerebral_cortex_dilated[v] = 0
                     /\ frame.vermis_mask_dilated[v] = 0
                  THEN 1 ELSE 0]

\* the file system with the file at the path replaced (removed for None)
Replaced(files, path, content) ==
    FsHolding([q \in DOMAIN files.files \cup {path} |->
                  IF q = path THEN content ELSE Some(files.files[q])])
\* the file system the finished builder call started from
BuilderStart ==
    [files |-> [q \in DOMAIN fs.files \ {call.output_reference_region} |->
                   fs.files[q]],
     dirs |-> fs.dirs]

\* C18: the cerebellar builder's cortex mask is the selection of labels 3
\* and 42 in the whole-brain volume passed to the call, and the outcome of
\* the call is the same whatever the module-level path holds.
C18_ArgumentsOnly ==
    Done("cerebellum_reference_region") =>
        /\ (frame # NoFrame /\ IsImageAt(call.aseg_segmentation_file)) =>
              frame.cerebral_cortex =
                  [v \in Voxels |->
                      IF AsegData[v] \in cerebral_cortex_ids THEN 1 ELSE 0]
        /\ \A other \in {None} \cup { Some(Image(m, Shape)) : m \in BrainVolumes } :
              LET o == CallBuilder(
                           [Replaced(BuilderStart, brain_segmentation, other)
                              EXCEPT !.dirs = fs.dirs],
                           <<call.cerebellum_segmentation_file,
                             call.aseg_segmentation_file,
                             call.output_reference_region>>)
              IN  /\ o.ret = ret
                  /\ ret.err = "none" =>
                         o.fs.files[call.output_reference_region]
                           = fs.files[call.output_reference_region]

\* the call of the custom wrapper fails its validation
CustomValidationFails ==
    \/ ~Exists(fs, call.mask_file)
    \/ /\ ~IsNone(call.probability_mask_file)
       /\ ~Exists(fs, call.probability_mask_file[1])
    \/ call.erode_by_voxels < 0
    \/ call.dilate_by_voxels < 0
    \/ OutOfRange(call.probability_threshold)
    \/ /\ ~IsNone(call.probability_mask_file)
       /\ Mismatch(call.mask_file, call.probability_mask_file[1])
CerebellumValidationFails ==
    \/ ~Exists(fs, call.cerebellum_segmentation_file)
    \/ ~Exists(fs, call.brain_segmentation)
    \/ Mismatch(call.cerebellum_segmentation_file, call.brain_segmentation)

\* C19: a wrapper call with a missing input file, a negative radius, a
\* threshold outside [0,1] or mismatched shapes fails before any selection,
\* erosion or dilation runs and creates neither the output file nor the
\* output directory.
C19_NoPartialEffect ==
    /\ (Done("wrapper") /\ CustomValidationFails) =>
          /\ ret.err # "none"
          /\ IsNone(ret.val)
          /\ \A ev \in Processing : ~Performed(ev)
          /\ NothingWritten
    /\ (Done("cerebellum_wrapper") /\ CerebellumValidationFails) =>
          /\ ret.err # "none"
          /\ IsNone(ret.val)
          /\ \A ev \in Processing : ~Performed(ev)
          /\ ~Exists(fs, call.output_reference_region)
          /\ Parent(call.output_reference_region) \notin fs.dirs

\* a call with readable files of one shape rejected for a negative radius
C19_Witness ==
    /\ Done("wrapper")
    /\ IsImageAt(call.mask_file)
    /\ ~IsNone(call.probability_mask_file)
    /\ IsImageAt(call.probability_mask_file[1])
    /\ ~Mismatch(call.mask_file, call.probability_mask_file[1])
    /\ ~OutOfRange(call.probability_threshold)
    /\ call.erode_by_voxels >= 0
    /\ call.dilate_by_voxels < 0
    /\ call.refregion_indices # {}
    /\ ret.err = "ValueError"

\* a region of the batch the runner cannot complete
Bad(r) == IsNone(r.mask_file) \/ IsNone(r.output_file) \/ ~Runnable(r)
InvalidRegion(r) ==
    \/ r.ref_indices = {}
    \/ r.erode < 0
    \/ r.dilate < 0
    \/ OutOfRange(r.probability_threshold)

\* C20: in a config-file run, a region of the file that is invalid makes the
\* run fail before any region is processed; a selected region that misses
\* mask_file or output_file or whose wrapper call fails ends the run with a
\* failure: the loop never goes past it and no later region's output file is
\* written.
C20_FailFast ==
    (IsConfigMain /\ pc # "called") =>
        /\ (\E r \in Configured : InvalidRegion(r)) =>
              /\ pc = "returned"
              /\ ret.err # "none"
              /\ trace = << >>
              /\ NothingWritten
        /\ \A j \in 1 .. Len(loop.regions) :
              Bad(loop.regions[j]) =>
                  /\ loop.i <= j
                  /\ pc = "returned" => ret.err # "none"
                  /\ \A k \in (j + 1) .. Len(loop.regions) :
                        ~IsNone(loop.regions[k].output_file) =>
                            ~Exists(fs, loop.regions[k].output_file[1])

\* a failed run of two regions: the first misses a field or its mask file,
\* the second could have been processed and has no output
C20_Witness ==
    /\ IsConfigMain
    /\ pc = "returned"
    /\ ret.err # "none"
    /\ Len(loop.regions) = 2
    /\ loop.i = 1
    /\ Bad(loop.regions[1])
    /\ ~Bad(loop.regions[2])
    /\ ~Exists(fs, loop.regions[2].output_file[1])

----------------------------------------------------------------------------
(* the configuration schema *)

\* the data a finished call of config.py was given: the document of the
\* file, the dictionary or the fields
ConfigInput ==
    IF call.op = "load_config" THEN fs.files[call.path].data
    ELSE IF call.op = "config_from_dict" THEN call.data
    ELSE call.fields

ConfigCallDone ==
    \/ Done("load_config") /\ Exists(fs, call.path)
    \/ Done("config_from_dict")

\* a configuration that breaks one of the rules of the schema
InvalidConfig(data) ==
    \/ data.version # SUPPORTED_CONFIG_VERSION
    \/ data.reference_regions = << >>
    \/ \E k \in 1 .. Len(data.reference_regions) :
          InvalidRegion(data.reference_regions[k])

\* C21: a configuration returned by load_config or config_from_dict has the
\* supported version and at least one region, a region returned by the
\* constructor (alone or inside a configuration) has a non-empty
\* ref_indices, erode >= 0, dilate >= 0 and a probability_threshold that is
\* absent or within [0, 1]; an input that breaks one of these rules ends in
\* an error and no object is returned.
C21_ConfigValid ==
    /\ ConfigCallDone =>
          /\ ret.err = "none" => ~InvalidConfig(Value)
          /\ InvalidConfig(ConfigInput) =>
                ret.err # "none" /\ IsNone(ret.val)
    /\ Done("ReferenceRegionConfig") =>
          /\ ret.err = "none" => ~InvalidRegion(Value)
          /\ InvalidRegion(ConfigInput) =>
                ret.err # "none" /\ IsNone(ret.val)

\* load_config refused a file of the supported version whose only fault is
\* a region with a probability_threshold above 1
C21_Witness ==
    /\ Done("load_config")
    /\ Exists(fs, call.path)
    /\ ret.err = "ValidationError"
    /\ ConfigInput.version = SUPPORTED_CONFIG_VERSION
    /\ Len(ConfigInput.reference_regions) = 2
    /\ ~InvalidRegion(ConfigInput.reference_regions[1])
    /\ ConfigInput.reference_regions[2].probability_threshold = Some(11)

----------------------------------------------------------------------------
(* region selection in config-file mode *)

\* a config-file run with --region whose config file loads
ConfigDocumentOf == fs.files[call.config[1]].data
SelectionRun ==
    /\ IsConfigMain
    /\ ~IsNone(call.region)
    /\ IsNone(call.mask)
    /\ Exists(fs, call.config[1])
    /\ Suffix(call.config[1]) \in {".yaml", ".yml", ".json"}
    /\ ~InvalidConfig(ConfigDocumentOf)
GivenNames == SeqElems(call.region[1])
\* the regions of the file that --region names, and the others
Named == { r \in Configured : r.name \in GivenNames }
Unnamed == Configured \ Named
\* how many regions the run has processed to the end
Printed == Cardinality({ k \in 1 .. Len(trace) : trace[k] = "print" })

\* C22: in a config-file run with --region whose names are all in the file,
\* the regions run are exactly the named ones, no output of another region
\* is ever written, and a run that ends without failure has processed each
\* named region once and written its output; with a name that is not in the
\* file the run exits with status 1, prints the missing and the available
\* names and processes nothing.
C22_RegionSelection ==
    (SelectionRun /\ pc # "called") =>
        IF GivenNames \subseteq SeqNames(ConfigDocumentOf.reference_regions)
        THEN /\ Selected = Named
             /\ Len(loop.regions) = Cardinality(Named)
             /\ \A r \in Unnamed :
                   ~IsNone(r.output_file) => ~Exists(fs, r.output_file[1])
             /\ Printed <= Cardinality(Named)
             /\ (pc = "returned" /\ ret.err = "none") =>
                   /\ Printed = Cardinality(Named)
                   /\ \A r \in Named : IsImageAt(r.output_file[1])
        ELSE /\ pc = "returned"
             /\ ret = Exit1
             /\ trace = << >>
             /\ NothingWritten
             /\ Len(stderr) = 1
             /\ stderr[1].error = "region(s) not found"
             /\ SeqElems(stderr[1].missing)
                  = GivenNames \ SeqNames(ConfigDocumentOf.reference_regions)
             /\ SeqElems(stderr[1].available)
                  = SeqNames(ConfigDocumentOf.reference_regions)

\* a finished run of a file with two regions that was asked for the second
\* one only: its output exists, the first region's does not
C22_Witness ==
    /\ SelectionRun
    /\ pc = "returned"
    /\ ret.err = "none"
    /\ call.region = Some(<<"r2">>)
    /\ Cardinality(Configured) = 2
    /\ \A r \in Named : IsImageAt(r.output_file[1])
    /\ \A r \in Unnamed : ~Exists(fs, r.output_file[1])

----------------------------------------------------------------------------
(* the cerebellar wrapper *)

\* C23: a call of the cerebellar wrapper on two readable segmentation files
\* of the same shape returns without error, has written the output file and
\* returns the metrics voxel_count, volume_mm3 and retention_percentage.
C23_WrapperCompletes ==
    (/\ Done("cerebellum_wrapper")
     /\ IsImageAt(call.cerebellum_segmentation_file)
     /\ IsImageAt(call.brain_segmentation)
     /\ ~Mismatch(call.cerebellum_segmentation_file, call.brain_segmentation))
    => /\ ret.err = "none"
       /\ IsImageAt(call.output_reference_region)
       /\ DOMAIN Value
            = {"voxel_count", "volume_mm3", "retention_percentage"}
       /\ Value.voxel_count \in Nat

----------------------------------------------------------------------------
(* the neighbourhood of erode and dilate *)

\* C24: for a radius r >= 0, erode(M, r) is on at v iff M is on at every
\* voxel of the volume within distance r of v (positions outside the volume
\* do not count against v), and dilate(M, r) is on at v iff M is on at some
\* voxel of the volume within distance r of v.
C24_BallNeighbourhood ==
    /\ (Done("erode") /\ call.by_radius >= 0) =>
          /\ ret.err = "none"
          /\ \A v \in Voxels :
                (Value[v] # 0) <=>
                    \A w \in Near(v, call.by_radius) : call.mask[w] # 0
    /\ (Done("dilate") /\ call.by_radius >= 0) =>
          /\ ret.err = "none"
          /\ \A v \in Voxels :
                (Value[v] # 0) <=>
                    \E w \in Near(v, call.by_radius) : call.mask[w] # 0

\* an erosion of radius 1 that keeps a voxel on the border of the volume
\* although the mask is off at a voxel diagonal to it
C24_Witness ==
    /\ Done("erode")
    /\ call.by_radius = 1
    /\ \E v \in On(Value) :
          /\ v[1] = 0
          /\ \E w \in Voxels : call.mask[w] = 0 /\ Dist2(v, w) = 2

----------------------------------------------------------------------------
(* the cerebellar builder without cortex and vermis *)

\* C25: when the whole-brain volume handed to the cerebellar builder has no
\* cerebral-cortex label and the cerebellar volume no vermis label, the on
\* voxels of the output are those whose neighbourhood of radius 1 lies
\* within the cerebellum-without-vermis labels; when the cerebellar volume
\* has no cerebellar label, the output is all zeros.
C25_NoSubtraction ==
    BuilderSucceeded =>
        /\ (/\ \A v \in Voxels : AsegData[v] \notin cerebral_cortex_ids
            /\ \A v \in Voxels : CerebellumData[v] \notin vermis_ids)
           => On(BuilderOutput)
                = { v \in Voxels :
                      \A w \in Near(v, 1) :
                          CerebellumData[w] \in cerebellum_no_vermis_ids }
        /\ (\A v \in Voxels :
                CerebellumData[v]
                  \notin cerebellum_no_vermis_ids \cup vermis_ids)
           => On(BuilderOutput) = {}

----------------------------------------------------------------------------
(* the front end against the core builder *)

\* the front end holds a processed mask
Processed == web.page = "open" /\ ~IsNone(web.processed_mask)
\* the core builder on the mask and the form values the processed mask was
\* computed from
CoreResult ==
    custom_ref_region(web.applied[1].mask,
                      SeqElems(web.applied[1].input.mask_indices),
                      web.applied[1].input.erosion_radius,
                      SeqElems(web.applied[1].input.exclusion_indices),
                      web.applied[1].input.dilation_radius, None, None)

\* C26: the non-zero voxels of the processed mask of the front end are the
\* on voxels custom_ref_region returns for the same label volume, include
\* indices, exclude indices, erosion radius and dilation radius.
C26_FrontEndRefinesCore ==
    Processed => On(web.processed_mask[1]) = On(CoreResult)

----------------------------------------------------------------------------
(* the save button of the front end *)

\* C30: in every state of the front end, an enabled save button comes with
\* a processed mask that was computed from the mask loaded at present.
C30_SaveHasProcessedMask ==
    (web.page = "open" /\ ~web.save_disabled) =>
        /\ ~IsNone(web.processed_mask)
        /\ ~IsNone(web.mask_img)
        /\ web.applied[1].mask = web.mask_img[1].data

----------------------------------------------------------------------------
(* the order of a config-file run *)

\* the position of a region in the config file
PositionInFile(r) ==
    CHOOSE k \in 1 .. Len(ConfigDocumentOf.reference_regions) :
        ConfigDocumentOf.reference_regions[k] = r
\* how many of the selected regions the run has finished
Finished ==
    IF pc = "returned" /\ ret.err = "none" THEN Len(loop.regions)
    ELSE loop.i - 1

\* C27: in a config-file run the selected regions are taken in the order of
\* the config file, whatever the order of the names given to --region, one
\* at a time: at every moment the outputs of the regions already finished
\* exist and no output of a later region does, also after a failure.
C27_ConfigOrder ==
    (IsConfigMain /\ pc \in {"loop", "returned"} /\ loop.regions # << >>) =>
        /\ \A a, b \in 1 .. Len(loop.regions) :
              a < b => PositionInFile(loop.regions[a])
                         < PositionInFile(loop.regions[b])
        /\ \A k \in 1 .. Len(loop.regions) :
              IF k <= Finished
              THEN IsImageAt(loop.regions[k].output_file[1])
              ELSE ~IsNone(loop.regions[k].output_file) =>
                       ~Exists(fs, loop.regions[k].output_file[1])

\* a run asked for "r2, r1" that has written the output of r1 and not yet
\* that of r2
C27_Witness ==
    /\ IsConfigMain
    /\ call.region = Some(<<"r2", "r1">>)
    /\ pc = "loop"
    /\ loop.i = 2
    /\ loop.regions[1].name = "r1"
    /\ IsImageAt(loop.regions[1].output_file[1])
    /\ ~Exists(fs, loop.regions[2].output_file[1])

----------------------------------------------------------------------------
(* the core builder: containment and monotonicity *)

\* C28: for radii >= 0, with or without probability inputs, every on voxel
\* of the result of custom_ref_region carries a label of the include set
\* that is not in the exclude set.
C28_WithinSelection ==
    (/\ Done("custom_ref_region")
     /\ call.erode_by_voxels >= 0
     /\ call.dilate_by_voxels >= 0)
    => \A v \in On(Value) :
          /\ call.mask[v] \in call.refregion_indices
          /\ call.mask[v] \notin call.exclude_indices

\* a call with a label in both sets and a positive erosion radius: the
\* result is not empty and leaves out a voxel of that label
C28_Witness ==
    /\ Done("custom_ref_region")
    /\ call.erode_by_voxels >= 1
    /\ On(Value) # {}
    /\ \E v \in Voxels :
          /\ call.mask[v] \in call.refregion_indices \cap call.exclude_indices
          /\ Value[v] = 0

\* the result of the finished builder call with other radii
WithRadii(e, d) ==
    custom_ref_region(call.mask, call.refregion_indices, e,
                      call.exclude_indices, d, call.probability_mask,
                      call.probability_threshold)

\* C29: for the label volume, index sets and probability inputs of a call,
\* the result with erosion radius e + 1 is a subset of the result with
\* radius e, and so is the result with dilation radius d + 1 against d;
\* the voxel count does not grow. Every pair of neighbouring radii up to
\* MaxRadius is compared.
C29_MonotoneInRadii ==
    (/\ Done("custom_ref_region")
     /\ call.erode_by_voxels >= 0
     /\ call.dilate_by_voxels >= 0)
    => LET eroded_more ==
               On(WithRadii(call.erode_by_voxels + 1, call.dilate_by_voxels))
           dilated_more ==
               On(WithRadii(call.erode_by_voxels, call.dilate_by_voxels + 1))
       IN  /\ call.erode_by_voxels < MaxRadius =>
                  /\ eroded_more \subseteq On(Value)
                  /\ Cardinality(eroded_more) <= voxel_count(Value)
           /\ call.dilate_by_voxels < MaxRadius =>
                  /\ dilated_more \subseteq On(Value)
                  /\ Cardinality(dilated_more) <= voxel_count(Value)

\* a call whose result loses a voxel when the erosion radius grows by one
\* and also when the dilation radius does
C29_Witness ==
    /\ Done("custom_ref_region")
    /\ call.exclude_indices # {}
    /\ call.erode_by_voxels < MaxRadius
    /\ call.dilate_by_voxels < MaxRadius
    /\ On(Value) # {}
    /\ On(WithRadii(call.erode_by_voxels + 1, call.dilate_by_voxels))
         # On(Value)
    /\ On(WithRadii(call.erode_by_voxels, call.dilate_by_voxels + 1))
         # On(Value)

====
